---- MODULE Spec2Model ----
(***************************************************************************)
(* Facility-cleanliness audit domain: the CleanlinessEvaluator service,   *)
(* the AuditResult aggregate and the value objects they are built from.   *)
(*                                                                         *)
(* Representation.                                                         *)
(*  - A Python str is a sequence of text pieces.  Label names and          *)
(*    negative terms are sequences of one-character pieces, so that        *)
(*    lower() and the substring test act on characters; a fixed message    *)
(*    of the code is one piece holding the whole literal.  The empty str   *)
(*    is << >>.                                                            *)
(*  - Optional[T] is << >> for None and << x >> for a value x.             *)
(*  - A float confidence is an integer number of 1/Scale percent.  Scale   *)
(*    is divisible by 1..5, so the mean of up to five whole-percent        *)
(*    confidences is computed exactly, as it is in binary floating point   *)
(*    up to the last bit.                                                  *)
(*  - uuid4() is a fresh number; datetime.utcnow() reads the clock `now`.  *)
(***************************************************************************)
EXTENDS Integers, Sequences, FiniteSets, TLC

\* ------------------------------------------------------------------ bounds
MaxLabels == 2
MaxClock == 2
MaxConfLabels == 6
MaxReasonLabels == 4
MaxCalls == 3
MaxExcess == 2
MaxAudits == 2
MaxTasks == 2

\* ------------------------------------------------------------- Optional[T]
None == << >>
Some(x) == << x >>

\* ------------------------------------------------------------------- str
\* the lower-case form of each upper-case letter
LowerOf ==
    "A" :> "a" @@ "B" :> "b" @@ "C" :> "c" @@ "D" :> "d" @@ "E" :> "e" @@ "F" :> "f"
    @@ "G" :> "g" @@ "H" :> "h" @@ "I" :> "i" @@ "J" :> "j" @@ "K" :> "k" @@ "L" :> "l"
    @@ "M" :> "m" @@ "N" :> "n" @@ "O" :> "o" @@ "P" :> "p" @@ "Q" :> "q" @@ "R" :> "r"
    @@ "S" :> "s" @@ "T" :> "t" @@ "U" :> "u" @@ "V" :> "v" @@ "W" :> "w" @@ "X" :> "x"
    @@ "Y" :> "y" @@ "Z" :> "z"

LowerChar(c) == IF c \in DOMAIN LowerOf THEN LowerOf[c] ELSE c

\* str.lower()
lower(s) == [i \in 1..Len(s) |-> LowerChar(s[i])]

\* needle in hay
StrIn(needle, hay) ==
    \E i \in 0..(Len(hay) - Len(needle)) :
        SubSeq(hay, i + 1, i + Len(needle)) = needle

\* sep.join(parts)
RECURSIVE join(_, _)
join(sep, parts) ==
    IF Len(parts) = 0 THEN << >>
    ELSE IF Len(parts) = 1 THEN parts[1]
    ELSE parts[1] \o sep \o join(sep, Tail(parts))

Digit(d) ==
    CASE d = 0 -> "0" [] d = 1 -> "1" [] d = 2 -> "2" [] d = 3 -> "3"
      [] d = 4 -> "4" [] d = 5 -> "5" [] d = 6 -> "6" [] d = 7 -> "7"
      [] d = 8 -> "8" [] d = 9 -> "9"

\* the decimal digits of a natural number
RECURSIVE NatStr(_)
NatStr(n) == IF n < 10 THEN << Digit(n) >> ELSE NatStr(n \div 10) \o << Digit(n % 10) >>

\* ------------------------------------------------------- CleanlinessStatus
CLEAN == "CLEAN"
NOT_CLEAN == "NOT_CLEAN"
REQUIRES_MANUAL_REVIEW == "REQUIRES_MANUAL_REVIEW"
INSUFFICIENT_DATA == "INSUFFICIENT_DATA"
CleanlinessStatus == {CLEAN, NOT_CLEAN, REQUIRES_MANUAL_REVIEW, INSUFFICIENT_DATA}

is_compliant(status) == status = CLEAN

requires_human_intervention(status) ==
    status \in {REQUIRES_MANUAL_REVIEW, INSUFFICIENT_DATA}

\* a factory that looks at the negative labels before the confidence
from_evaluation_labels_first(negative_labels, confidence_below_threshold, manual_override) ==
    IF manual_override # None THEN
        (IF manual_override[1] THEN CLEAN ELSE NOT_CLEAN)
    ELSE IF Len(negative_labels) > 0 THEN NOT_CLEAN
    ELSE IF confidence_below_threshold THEN REQUIRES_MANUAL_REVIEW
    ELSE CLEAN

\* CleanlinessStatus.from_evaluation(negative_labels, confidence_below_threshold,
\* manual_override); negative_labels is a list of names
from_evaluation(negative_labels, confidence_below_threshold, manual_override) ==
    IF manual_override # None THEN
        (IF manual_override[1] THEN CLEAN ELSE NOT_CLEAN)
    ELSE IF confidence_below_threshold THEN REQUIRES_MANUAL_REVIEW
    ELSE IF Len(negative_labels) > 0 THEN NOT_CLEAN
    ELSE CLEAN

\* --------------------------------------------------------- ConfidenceScore
Scale == 60
Pct(p) == p * Scale

ConfidenceScore(v) == [value |-> v]

\* a range test that forgets the lower end
ConfidenceScoreValidUpperOnly(v) == v <= Pct(100)

\* __post_init__ raises ValueError exactly when this is false
ConfidenceScoreValid(v) == 0 <= v /\ v <= Pct(100)

\* ConfidenceScore(value=v) as a call: the object __init__ and __post_init__
\* produce, or the error raised
NewConfidenceScore(v) ==
    IF ConfidenceScoreValid(v)
    THEN [ returned |-> Some(ConfidenceScore(v)), raised |-> None ]
    ELSE [ returned |-> None, raised |-> Some("ValueError") ]

\* cls(value=score)
from_rekognition(score) == NewConfidenceScore(score)

\* cls(value=score * 100.0); a normalized score is held in 1/Scale, so that
\* the product is in 1/Scale percent
from_normalized(score) == NewConfidenceScore(score * 100)

\* a threshold test that treats a score equal to the threshold as low
is_strictly_above_threshold(score, threshold) == score.value > threshold

is_above_threshold(score, threshold) == score.value >= threshold

\* f"{value:.2f}%": the value rounded to hundredths (no value of the model
\* lies half-way between two hundredths), two decimals, a percent sign
as_percentage(score) ==
    LET h == (2 * 100 * score.value + Scale) \div (2 * Scale)
    IN  NatStr(h \div 100) \o << ".", Digit((h % 100) \div 10), Digit(h % 10), "%" >>

\* -------------------------------------------------------- CleanlinessRules
DefaultNegativeLabels == {
    <<"D", "i", "r", "t">>,
    <<"M", "u", "d">>,
    <<"D", "e", "b", "r", "i", "s">>,
    <<"T", "r", "a", "s", "h">>,
    <<"G", "a", "r", "b", "a", "g", "e">>,
    <<"L", "i", "t", "t", "e", "r">>,
    <<"W", "a", "s", "t", "e">>,
    <<"R", "u", "b", "b", "i", "s", "h">>,
    <<"C", "l", "u", "t", "t", "e", "r">>,
    <<"M", "e", "s", "s">>,
    <<"S", "t", "a", "i", "n">>,
    <<"G", "r", "a", "f", "f", "i", "t", "i">>,
    <<"R", "u", "s", "t">>,
    <<"C", "o", "r", "r", "o", "s", "i", "o", "n">>,
    <<"M", "o", "l", "d">>,
    <<"M", "i", "l", "d", "e", "w">>,
    <<"D", "e", "c", "a", "y">>,
    <<"D", "e", "t", "e", "r", "i", "o", "r", "a", "t", "i", "o", "n">>,
    <<"I", "n", "s", "e", "c", "t">>,
    <<"B", "u", "g">>,
    <<"R", "o", "d", "e", "n", "t">>,
    <<"P", "e", "s", "t">>,
    <<"S", "p", "i", "d", "e", "r", " ", "W", "e", "b">>,
    <<"D", "i", "s", "o", "r", "d", "e", "r">>,
    <<"D", "i", "s", "o", "r", "g", "a", "n", "i", "z", "e", "d">>,
    <<"U", "n", "t", "i", "d", "y">>,
    <<"U", "n", "k", "e", "m", "p", "t">>,
    <<"S", "p", "i", "l", "l">>,
    <<"L", "e", "a", "k">>,
    <<"B", "r", "o", "k", "e", "n", " ", "G", "l", "a", "s", "s">>,
    <<"S", "h", "a", "r", "p", " ", "O", "b", "j", "e", "c", "t">> }

DefaultConfidenceThreshold == Pct(80)
DefaultMaxNegativeLabels == 0

\* CleanlinessRules(negative_labels, ...) after __post_init__; negative_labels
\* is an Optional set of terms, None selecting the built-in set
CleanlinessRules(negative_labels, confidence_threshold, max_negative_labels, require_review_on_low_confidence) ==
    [ negative_labels |-> IF negative_labels = None THEN DefaultNegativeLabels
                          ELSE negative_labels[1],
      confidence_threshold |-> confidence_threshold,
      max_negative_labels |-> max_negative_labels,
      require_review_on_low_confidence |-> require_review_on_low_confidence ]

DefaultRules == CleanlinessRules(None, DefaultConfidenceThreshold, DefaultMaxNegativeLabels, TRUE)

\* ------------------------------------------------- VisionLabel and result
VisionLabel(name, confidence) ==
    [name |-> name, confidence |-> confidence, category |-> "general"]

VisionAnalysisResult(labels) ==
    [labels |-> labels, provider_name |-> "unknown", model_version |-> "unknown"]

DetectedLabel(name, confidence, is_negative) ==
    [name |-> name, confidence |-> confidence, is_negative |-> is_negative]

\* the fields of ImageMetadata that the domain reads; width_px and height_px
\* are Optional
ImageMetadata(dealer_id, checkpoint_id, file_size_bytes, width_px, height_px) ==
    [ dealer_id |-> dealer_id, checkpoint_id |-> checkpoint_id,
      file_size_bytes |-> file_size_bytes, width_px |-> width_px, height_px |-> height_px ]

MinWidthPx == 640
MinHeightPx == 480

\* `if x` for an Optional[int]: None and 0 are falsy
TruthyInt(opt) == opt # None /\ opt[1] # 0

is_valid_for_analysis(self) ==
    IF self.file_size_bytes > 15 * 1024 * 1024 THEN FALSE
    ELSE IF TruthyInt(self.width_px) /\ TruthyInt(self.height_px) THEN
        (IF self.width_px[1] < MinWidthPx \/ self.height_px[1] < MinHeightPx THEN FALSE
         ELSE TRUE)
    ELSE TRUE

\* ------------------------------------------------------------- AuditResult
ReasonLabelCount == 3

\* [label for label in labels if label.is_negative]
IsNegativeFilter(labels) == SelectSeq(labels, LAMBDA l : l.is_negative)

\* `not x` for an Optional[str]: None and the empty str are falsy
Falsy(opt) == opt = None \/ opt[1] = << >>

\* a reason that names every negative label
generate_reason_all_labels(self) ==
    IF self.status = CLEAN THEN
        << "No cleanliness issues detected" >>
    ELSE IF self.status = INSUFFICIENT_DATA THEN
        << "Confidence too low (" >> \o as_percentage(self.overall_confidence) \o << ")" >>
    ELSE IF self.status = REQUIRES_MANUAL_REVIEW THEN
        << "Unclear results - manual review required" >>
    ELSE IF Len(self.negative_labels) > 0 THEN
        << "Issues detected: " >> \o
        join(<< ", " >>, [i \in 1..Len(self.negative_labels) |-> self.negative_labels[i].name])
    ELSE
        << "Status determination unclear" >>

_generate_reason(self) ==
    IF self.status = CLEAN THEN
        << "No cleanliness issues detected" >>
    ELSE IF self.status = INSUFFICIENT_DATA THEN
        << "Confidence too low (" >> \o as_percentage(self.overall_confidence) \o << ")" >>
    ELSE IF self.status = REQUIRES_MANUAL_REVIEW THEN
        << "Unclear results - manual review required" >>
    ELSE IF Len(self.negative_labels) > 0 THEN
        LET first == SubSeq(self.negative_labels, 1,
                            IF Len(self.negative_labels) < ReasonLabelCount
                            THEN Len(self.negative_labels) ELSE ReasonLabelCount)
            label_names == [i \in 1..Len(first) |-> first[i].name]
        IN  << "Issues detected: " >> \o join(<< ", " >>, label_names)
    ELSE
        << "Status determination unclear" >>

\* a __post_init__ that derives negative_labels only "if not explicitly passed"
post_init_keeps_passed_labels(self) ==
    LET derived == IF Len(self.negative_labels) > 0 THEN self
                   ELSE [self EXCEPT !.negative_labels = IsNegativeFilter(self.detected_labels)]
    IN  IF Falsy(derived.reason)
        THEN [derived EXCEPT !.reason = Some(_generate_reason(derived))]
        ELSE derived

\* the dataclass __init__ has assigned every field of self; __post_init__
\* then re-derives negative_labels and fills in a missing reason
__post_init__(self) ==
    LET derived == [self EXCEPT !.negative_labels = IsNegativeFilter(self.detected_labels)]
    IN  IF Falsy(derived.reason)
        THEN [derived EXCEPT !.reason = Some(_generate_reason(derived))]
        ELSE derived

\* AuditResult(...): the fields a caller may pass, the defaults of the others
\* (audit_id from uuid4, analyzed_at from utcnow), then __post_init__
AuditResult(image_metadata, detected_labels, overall_confidence, status, audit_id, negative_labels, reason, analyzed_at, manual_override, vision_provider, model_version) ==
    __post_init__([ image_metadata |-> image_metadata,
                    detected_labels |-> detected_labels,
                    overall_confidence |-> overall_confidence,
                    status |-> status,
                    audit_id |-> audit_id,
                    negative_labels |-> negative_labels,
                    reason |-> reason,
                    analyzed_at |-> analyzed_at,
                    reviewed_by |-> None,
                    reviewed_at |-> None,
                    manual_override |-> manual_override,
                    vision_provider |-> vision_provider,
                    model_version |-> model_version ])

\* an override that records the first review only
override_keeps_first_review(self, reviewer_id, is_clean, notes, utcnow) ==
    [self EXCEPT !.manual_override = Some(is_clean),
                 !.status = IF is_clean THEN CLEAN ELSE NOT_CLEAN,
                 !.reviewed_by = IF self.reviewed_by = None THEN Some(reviewer_id) ELSE @,
                 !.reviewed_at = IF self.reviewed_at = None THEN Some(utcnow) ELSE @,
                 !.reason = Some(<< "Manual override: " >> \o notes)]

\* an override whose reason is the bare notes
override_reason_is_notes(self, reviewer_id, is_clean, notes, utcnow) ==
    [self EXCEPT !.manual_override = Some(is_clean),
                 !.status = IF is_clean THEN CLEAN ELSE NOT_CLEAN,
                 !.reviewed_by = Some(reviewer_id),
                 !.reviewed_at = Some(utcnow),
                 !.reason = Some(notes)]

\* an override that records the review and leaves the status as it was
override_without_status(self, reviewer_id, is_clean, notes, utcnow) ==
    [self EXCEPT !.manual_override = Some(is_clean),
                 !.reviewed_by = Some(reviewer_id),
                 !.reviewed_at = Some(utcnow),
                 !.reason = Some(<< "Manual override: " >> \o notes)]

\* an override that, declaring the image clean, drops the recorded violations
override_clears_negative_labels(self, reviewer_id, is_clean, notes, utcnow) ==
    [self EXCEPT !.manual_override = Some(is_clean),
                 !.status = IF is_clean THEN CLEAN ELSE NOT_CLEAN,
                 !.negative_labels = IF is_clean THEN << >> ELSE @,
                 !.reviewed_by = Some(reviewer_id),
                 !.reviewed_at = Some(utcnow),
                 !.reason = Some(<< "Manual override: " >> \o notes)]

apply_manual_override(self, reviewer_id, is_clean, notes, utcnow) ==
    [self EXCEPT !.manual_override = Some(is_clean),
                 !.status = IF is_clean THEN CLEAN ELSE NOT_CLEAN,
                 !.reviewed_by = Some(reviewer_id),
                 !.reviewed_at = Some(utcnow),
                 !.reason = Some(<< "Manual override: " >> \o notes)]

\* a finalization test that takes the override flag for the review
is_finalized_by_override_flag(self) == self.manual_override # None

is_finalized(self) == self.reviewed_by # None

passes_compliance(self) == is_compliant(self.status)

requires_review(self) == requires_human_intervention(self.status)

\* ---------------------------------------------------- CleanlinessEvaluator
TopLabelCount == 5

\* a match that lowers the label name but not the configured term
is_negative_label_term_as_written(r, label_name) ==
    LET label_lower == lower(label_name)
    IN  \E neg_label \in r.negative_labels : StrIn(neg_label, label_lower)

_is_negative_label(r, label_name) ==
    LET label_lower == lower(label_name)
    IN  \E neg_label \in r.negative_labels : StrIn(lower(neg_label), label_lower)

_convert_labels(r, vision_labels) ==
    << >> \o [i \in 1..Len(vision_labels) |->
        DetectedLabel(vision_labels[i].name, vision_labels[i].confidence,
                      _is_negative_label(r, vision_labels[i].name))]

_identify_negative_labels(labels) == SelectSeq(labels, LAMBDA label : label.is_negative)

\* the place of labels[i] in the sorted list: behind every label of a higher
\* confidence and every earlier label of the same confidence (sorted() is
\* stable, also with reverse=True)
SortedPlace(labels, i) ==
    1 + Cardinality({ j \in 1..Len(labels) :
                        \/ labels[j].confidence.value > labels[i].confidence.value
                        \/ /\ labels[j].confidence.value = labels[i].confidence.value
                           /\ j < i })

\* sorted(labels, key=lambda x: x.confidence.value, reverse=True)
SortedByConfidence(labels) ==
    [k \in 1..Len(labels) |->
        labels[CHOOSE i \in 1..Len(labels) : SortedPlace(labels, i) = k]]

RECURSIVE SumConfidence(_)
SumConfidence(labels) ==
    IF Len(labels) = 0 THEN 0
    ELSE Head(labels).confidence.value + SumConfidence(Tail(labels))

\* an average of the first five labels in detection order
calculate_confidence_unsorted(labels) ==
    IF Len(labels) = 0 THEN ConfidenceScore(0)
    ELSE LET top_labels == SubSeq(labels, 1, IF Len(labels) < TopLabelCount THEN Len(labels)
                                             ELSE TopLabelCount)
         IN  ConfidenceScore(SumConfidence(top_labels) \div Len(top_labels))

_calculate_overall_confidence(labels) ==
    IF Len(labels) = 0 THEN ConfidenceScore(0)
    ELSE LET all == SortedByConfidence(labels)
             top_labels == SubSeq(all, 1, IF Len(all) < TopLabelCount THEN Len(all)
                                          ELSE TopLabelCount)
         IN  ConfidenceScore(SumConfidence(top_labels) \div Len(top_labels))

\* a decision that tests the confidence before the manual override
determine_status_confidence_first(r, negative_labels, overall_confidence, manual_override) ==
    IF ~is_above_threshold(overall_confidence, r.confidence_threshold) THEN
        (IF r.require_review_on_low_confidence THEN REQUIRES_MANUAL_REVIEW
         ELSE INSUFFICIENT_DATA)
    ELSE IF manual_override # None THEN
        (IF manual_override[1] THEN CLEAN ELSE NOT_CLEAN)
    ELSE IF Len(negative_labels) > r.max_negative_labels THEN NOT_CLEAN
    ELSE IF Len(negative_labels) > 0 THEN NOT_CLEAN
    ELSE CLEAN

\* a decision that fails an audit on its negative labels before it looks at
\* the confidence
determine_status_labels_first(r, negative_labels, overall_confidence, manual_override) ==
    IF manual_override # None THEN
        (IF manual_override[1] THEN CLEAN ELSE NOT_CLEAN)
    ELSE IF Len(negative_labels) > 0 THEN NOT_CLEAN
    ELSE IF ~is_above_threshold(overall_confidence, r.confidence_threshold) THEN
        (IF r.require_review_on_low_confidence THEN REQUIRES_MANUAL_REVIEW
         ELSE INSUFFICIENT_DATA)
    ELSE CLEAN

_determine_status(r, negative_labels, overall_confidence, manual_override) ==
    IF manual_override # None THEN
        (IF manual_override[1] THEN CLEAN ELSE NOT_CLEAN)
    ELSE IF ~is_above_threshold(overall_confidence, r.confidence_threshold) THEN
        (IF r.require_review_on_low_confidence THEN REQUIRES_MANUAL_REVIEW
         ELSE INSUFFICIENT_DATA)
    ELSE IF Len(negative_labels) > r.max_negative_labels THEN NOT_CLEAN
    ELSE IF Len(negative_labels) > 0 THEN NOT_CLEAN
    ELSE CLEAN

\* the number of the rule of _determine_status whose return statement is taken
\* (Rule 1 .. Rule 5 in the comments of the code)
_determine_status_rule(r, negative_labels, overall_confidence, manual_override) ==
    IF manual_override # None THEN 1
    ELSE IF ~is_above_threshold(overall_confidence, r.confidence_threshold) THEN 2
    ELSE IF Len(negative_labels) > r.max_negative_labels THEN 3
    ELSE IF Len(negative_labels) > 0 THEN 4
    ELSE 5

\* an evaluate whose reason carries the time of the analysis
evaluate_reason_with_time(r, vision_result, image_metadata, manual_override, audit_id, utcnow) ==
    LET detected_labels == _convert_labels(r, vision_result.labels)
        overall_confidence == _calculate_overall_confidence(detected_labels)
        negative_labels == _identify_negative_labels(detected_labels)
        status == _determine_status(r, negative_labels, overall_confidence, manual_override)
        audit == AuditResult(image_metadata, detected_labels, overall_confidence, status,
                             audit_id, negative_labels, None, utcnow, manual_override,
                             vision_result.provider_name, vision_result.model_version)
    IN  [audit EXCEPT !.reason = Some(@[1] \o << " at " >> \o NatStr(utcnow))]

\* an evaluate that records a forced verdict as a review made by the caller
evaluate_override_is_review(r, vision_result, image_metadata, manual_override, audit_id, utcnow) ==
    LET detected_labels == _convert_labels(r, vision_result.labels)
        overall_confidence == _calculate_overall_confidence(detected_labels)
        negative_labels == _identify_negative_labels(detected_labels)
        status == _determine_status(r, negative_labels, overall_confidence, manual_override)
        audit == AuditResult(image_metadata, detected_labels, overall_confidence, status,
                             audit_id, negative_labels, None, utcnow, manual_override,
                             vision_result.provider_name, vision_result.model_version)
    IN  IF manual_override = None THEN audit
        ELSE [audit EXCEPT !.reviewed_by = Some(<< "evaluator" >>),
                           !.reviewed_at = Some(utcnow)]

\* evaluate(vision_result, image_metadata, manual_override) of an evaluator
\* holding rules r; audit_id and utcnow are what uuid4() and utcnow() return
evaluate(r, vision_result, image_metadata, manual_override, audit_id, utcnow) ==
    LET detected_labels == _convert_labels(r, vision_result.labels)
        overall_confidence == _calculate_overall_confidence(detected_labels)
        negative_labels == _identify_negative_labels(detected_labels)
        status == _determine_status(r, negative_labels, overall_confidence, manual_override)
    IN  AuditResult(image_metadata, detected_labels, overall_confidence, status,
                    audit_id, negative_labels, None, utcnow, manual_override,
                    vision_result.provider_name, vision_result.model_version)

\* ------------------------------------------------ InMemoryAuditRepository
\* self._audits is a dict: its entries in insertion order, each the key and
\* a reference (the place in audits) of the object stored under it.

\* dict.values()
values(storage) == [i \in 1..Len(storage) |-> storage[i].ref]

\* storage[key] = ref: a key already present keeps its place
setitem(storage, key, ref) ==
    IF \E i \in 1..Len(storage) : storage[i].key = key
    THEN [i \in 1..Len(storage) |->
            IF storage[i].key = key THEN [ key |-> key, ref |-> ref ] ELSE storage[i]]
    ELSE Append(storage, [ key |-> key, ref |-> ref ])

\* storage.get(key)
get(storage, key) ==
    IF \E i \in 1..Len(storage) : storage[i].key = key
    THEN Some(storage[CHOOSE i \in 1..Len(storage) : storage[i].key = key].ref)
    ELSE None

\* seq[:limit]
SliceTo(seq, limit) ==
    IF limit >= 0 THEN SubSeq(seq, 1, IF limit < Len(seq) THEN limit ELSE Len(seq))
    ELSE SubSeq(seq, 1, IF Len(seq) + limit > 0 THEN Len(seq) + limit ELSE 0)

\* the place of refs[i] after refs.sort(key=lambda x: x.analyzed_at,
\* reverse=reverse): list.sort is stable in both directions
SortedPlaceByTime(heap, refs, i, reverse) ==
    1 + Cardinality({ j \in 1..Len(refs) :
            \/ (IF reverse THEN heap[refs[j]].analyzed_at > heap[refs[i]].analyzed_at
                ELSE heap[refs[j]].analyzed_at < heap[refs[i]].analyzed_at)
            \/ /\ heap[refs[j]].analyzed_at = heap[refs[i]].analyzed_at
               /\ j < i })

sort_by_analyzed_at(heap, refs, reverse) ==
    [k \in 1..Len(refs) |->
        refs[CHOOSE i \in 1..Len(refs) : SortedPlaceByTime(heap, refs, i, reverse) = k]]

\* a save that leaves an existing record as it is
save_keeps_existing(storage, heap, ref) ==
    IF get(storage, heap[ref].audit_id) # None THEN storage
    ELSE setitem(storage, heap[ref].audit_id, ref)

\* save(audit), audit being the object heap[ref]
save(storage, heap, ref) == setitem(storage, heap[ref].audit_id, ref)

find_by_id(storage, audit_id) == get(storage, audit_id)

\* a query that returns the oldest matching audits first
find_by_dealer_and_checkpoint_oldest_first(storage, heap, dealer_id, checkpoint_id, limit) ==
    LET results == SelectSeq(values(storage), LAMBDA r :
                       /\ heap[r].image_metadata.dealer_id = dealer_id
                       /\ heap[r].image_metadata.checkpoint_id = checkpoint_id)
    IN  SliceTo(sort_by_analyzed_at(heap, results, FALSE), limit)

find_by_dealer_and_checkpoint(storage, heap, dealer_id, checkpoint_id, limit) ==
    LET results == SelectSeq(values(storage), LAMBDA r :
                       /\ heap[r].image_metadata.dealer_id = dealer_id
                       /\ heap[r].image_metadata.checkpoint_id = checkpoint_id)
    IN  SliceTo(sort_by_analyzed_at(heap, results, TRUE), limit)

find_pending_reviews(storage, heap, limit) ==
    LET results == SelectSeq(values(storage), LAMBDA r :
                       /\ heap[r].status = REQUIRES_MANUAL_REVIEW
                       /\ ~is_finalized(heap[r]))
    IN  SliceTo(sort_by_analyzed_at(heap, results, FALSE), limit)

\* counts[audit.status.value] += 1 for every stored audit; dealer_id is not read
count_by_status(storage, heap, dealer_id) ==
    [ status \in CleanlinessStatus |->
        Cardinality({ i \in 1..Len(storage) : heap[storage[i].ref].status = status }) ]

\* =================================================================== state
VARIABLES
    rules,      \* the CleanlinessRules held by the evaluator (self.rules)
    audits,     \* the AuditResult objects constructed so far, in creation order
    calls,      \* the calls made so far (a specification keeps the last one or all)
    now,        \* the clock read by datetime.utcnow()
    repo,       \* InMemoryAuditRepository._audits: the entries of the dict, in
                \* insertion order, each a key and a reference into audits
    tasks       \* the evaluate calls in progress, each with its local variables

vars == << rules, audits, calls, now, repo, tasks >>

\* ------------------------------------------------------------ input pools
Car == << "C", "a", "r" >>
Tire == << "T", "i", "r", "e" >>
Trash == << "T", "r", "a", "s", "h" >>
TRASH_CAN == << "T", "R", "A", "S", "H", " ", "C", "A", "N" >>
oil_stain == << "o", "i", "l", " ", "s", "t", "a", "i", "n" >>

Metadata == { ImageMetadata("dealer-1", "entrance", 204800, Some(1024), Some(768)) }
Overrides == { None, Some(TRUE), Some(FALSE) }
Reviewers == { << "auditor-1" >>, << "auditor-2" >> }
Notes == { << >>, << "verified on site" >> }

\* every list of at most n elements of S
SeqsUpTo(S, n) == UNION { [1..k -> S] : k \in 0..n }

\* ---------------------------------------------------------------- actions
\* audit = evaluator.evaluate(vision_result, image_metadata, manual_override)
DoEvaluate(vision_result, image_metadata, manual_override, history) ==
    LET audit == evaluate(rules, vision_result, image_metadata, manual_override,
                          Len(audits) + 1, now)
    IN  /\ audits' = Append(audits, audit)
        /\ calls' = Append(history, [ op |-> "evaluate",
                                      vision_result |-> vision_result,
                                      image_metadata |-> image_metadata,
                                      manual_override |-> manual_override,
                                      returned |-> audit ])
        /\ UNCHANGED << rules, now, repo, tasks >>

\* audit = AuditResult(image_metadata, detected_labels, overall_confidence,
\*                     status, negative_labels=..., reason=..., manual_override=...)
DoConstruct(image_metadata, detected_labels, overall_confidence, status, negative_labels, reason, manual_override, history) ==
    LET audit == AuditResult(image_metadata, detected_labels, overall_confidence,
                             status, Len(audits) + 1, negative_labels, reason, now,
                             manual_override, "rekognition", None)
    IN  /\ audits' = Append(audits, audit)
        /\ calls' = Append(history, [ op |-> "AuditResult",
                                      negative_labels |-> negative_labels,
                                      reason |-> reason,
                                      returned |-> audit ])
        /\ UNCHANGED << rules, now, repo, tasks >>

\* audits[i].apply_manual_override(reviewer_id, is_clean, notes)
DoApplyManualOverride(i, reviewer_id, is_clean, notes, history) ==
    /\ audits' = [audits EXCEPT ![i] = apply_manual_override(@, reviewer_id, is_clean,
                                                             notes, now)]
    /\ calls' = Append(history, [ op |-> "apply_manual_override",
                                  audit |-> i,
                                  reviewer_id |-> reviewer_id,
                                  is_clean |-> is_clean,
                                  notes |-> notes,
                                  at |-> now ])
    /\ UNCHANGED << rules, now, repo, tasks >>

\* time passes
Tick ==
    /\ now < MaxClock
    /\ now' = now + 1
    /\ UNCHANGED << rules, audits, calls, repo, tasks >>

\* ============================================ Spec: one audit's life cycle
\* An AuditResult is produced by the evaluator or constructed directly, and
\* then overridden by reviewers any number of times.
LifeRules == {
    DefaultRules,
    CleanlinessRules(Some({ << "T", "R", "A", "S", "H" >> }), Pct(92), 1, FALSE) }

LifeLabels == { VisionLabel(n, ConfidenceScore(Pct(c))) : n \in { Car, Trash }, c \in { 40, 92 } }

LifeDetected == {
    DetectedLabel(Car, ConfidenceScore(Pct(92)), FALSE),
    DetectedLabel(Car, ConfidenceScore(Pct(92)), TRUE),
    DetectedLabel(Trash, ConfidenceScore(Pct(40)), TRUE) }

LifeReasons == { None, Some(<< >>), Some(<< "Checked by hand" >>) }

Init ==
    /\ rules \in LifeRules
    /\ audits = << >>
    /\ calls = << >>
    /\ now = 0
    /\ repo = << >>
    /\ tasks = << >>

Evaluate ==
    /\ Len(audits) = 0
    /\ \E labels \in SeqsUpTo(LifeLabels, MaxLabels), md \in Metadata, m \in Overrides :
          DoEvaluate(VisionAnalysisResult(labels), md, m, << >>)

Construct ==
    /\ Len(audits) = 0
    /\ \E md \in Metadata,
          detected \in SeqsUpTo(LifeDetected, MaxLabels),
          passed \in SeqsUpTo(LifeDetected, 1),
          c \in { 40, 92 },
          st \in CleanlinessStatus,
          reason \in LifeReasons :
          DoConstruct(md, detected, ConfidenceScore(Pct(c)), st, passed, reason, None, << >>)

ApplyManualOverride ==
    \E i \in 1..Len(audits), reviewer_id \in Reviewers, is_clean \in BOOLEAN, notes \in Notes :
        DoApplyManualOverride(i, reviewer_id, is_clean, notes, << >>)

Next == Evaluate \/ Construct \/ ApplyManualOverride \/ Tick

Spec == Init /\ [][Next]_vars

\* ================================= SpecEvaluate: evaluate as a function
\* One evaluator, configured with any of the rules below, evaluates one
\* vision result.
EvalTerms == {
    None,
    Some({ }),
    Some({ << "o", "i", "l" >>, << "S", "T", "A", "I", "N" >> }),
    Some({ << "T", "R", "A", "S", "H" >> }) }

EvalRules ==
    { CleanlinessRules(t, Pct(th), mx, rv) :
        t \in EvalTerms, th \in { 0, 80 }, mx \in { 0, 1 }, rv \in BOOLEAN }

EvalLabels ==
    { VisionLabel(n, ConfidenceScore(Pct(c))) :
        n \in { Car, TRASH_CAN, oil_stain }, c \in { 40, 80, 92 } }

InitEvaluate ==
    /\ rules \in EvalRules
    /\ audits = << >>
    /\ calls = << >>
    /\ now = 0
    /\ repo = << >>
    /\ tasks = << >>

EvaluateOnce ==
    /\ Len(audits) = 0
    /\ \E labels \in SeqsUpTo(EvalLabels, MaxLabels), md \in Metadata, m \in Overrides :
          DoEvaluate(VisionAnalysisResult(labels), md, m, << >>)

NextEvaluate == EvaluateOnce

SpecEvaluate == InitEvaluate /\ [][NextEvaluate]_vars

\* ======================== SpecConfidence: the aggregate confidence alone
\* One evaluation of a result of up to MaxConfLabels labels that differ in
\* their confidence only.
ConfLabels ==
    { VisionLabel(Car, ConfidenceScore(Pct(c))) : c \in { 10, 75, 85, 95 } }

\* the documented example: confidences 95, 90, 85, 80, 75, 10
ConfExample ==
    [i \in 1..6 |-> VisionLabel(Car, ConfidenceScore(Pct(<< 95, 90, 85, 80, 75, 10 >>[i])))]

InitConfidence ==
    /\ rules = CleanlinessRules(Some({ Trash }), DefaultConfidenceThreshold,
                                DefaultMaxNegativeLabels, TRUE)
    /\ audits = << >>
    /\ calls = << >>
    /\ now = 0
    /\ repo = << >>
    /\ tasks = << >>

EvaluateConfidence ==
    /\ Len(audits) = 0
    /\ \E labels \in SeqsUpTo(ConfLabels, MaxConfLabels) \cup { ConfExample }, md \in Metadata :
          DoEvaluate(VisionAnalysisResult(labels), md, None, << >>)

NextConfidence == EvaluateConfidence

SpecConfidence == InitConfidence /\ [][NextConfidence]_vars

\* ============================== SpecReason: the generated reason alone
\* One AuditResult constructed without a reason, directly from labels that
\* carry their is_negative flag or by the default evaluator from one of the
\* documented scenarios.
ReasonDetected == {
    DetectedLabel(Trash, ConfidenceScore(Pct(92)), TRUE),
    DetectedLabel(oil_stain, ConfidenceScore(Pct(92)), TRUE),
    DetectedLabel(Car, ConfidenceScore(Pct(92)), FALSE) }

\* 0, 40, 70 2/3 and 100 percent
ReasonConfidences == { 0, Pct(40), Pct(70) + (2 * Scale) \div 3, Pct(100) }

Scenarios == {
    << >>,
    << VisionLabel(Trash, ConfidenceScore(Pct(92))) >>,
    << VisionLabel(Car, ConfidenceScore(Pct(40))) >>,
    << VisionLabel(Car, ConfidenceScore(Pct(95))), VisionLabel(Tire, ConfidenceScore(Pct(88))) >> }

InitReason ==
    /\ rules = DefaultRules
    /\ audits = << >>
    /\ calls = << >>
    /\ now = 0
    /\ repo = << >>
    /\ tasks = << >>

ConstructWithoutReason ==
    /\ Len(audits) = 0
    /\ \E md \in Metadata,
          detected \in SeqsUpTo(ReasonDetected, MaxReasonLabels),
          c \in ReasonConfidences,
          st \in CleanlinessStatus :
          DoConstruct(md, detected, ConfidenceScore(c), st, << >>, None, None, << >>)

EvaluateScenario ==
    /\ Len(audits) = 0
    /\ \E labels \in Scenarios, md \in Metadata, m \in Overrides :
          DoEvaluate(VisionAnalysisResult(labels), md, m, << >>)

NextReason == ConstructWithoutReason \/ EvaluateScenario

SpecReason == InitReason /\ [][NextReason]_vars

\* ================== SpecDeterminism: repeated calls of one evaluator
\* One evaluator is called up to MaxCalls times, at any times, and every call
\* and what it returned is kept.
RepeatResults == {
    << VisionLabel(Car, ConfidenceScore(Pct(95))) >>,
    << VisionLabel(Trash, ConfidenceScore(Pct(92))), VisionLabel(Car, ConfidenceScore(Pct(40))) >> }

InitDeterminism ==
    /\ rules \in LifeRules
    /\ audits = << >>
    /\ calls = << >>
    /\ now = 0
    /\ repo = << >>
    /\ tasks = << >>

EvaluateAgain ==
    /\ Len(calls) < MaxCalls
    /\ \E labels \in RepeatResults, md \in Metadata, m \in { None, Some(FALSE) } :
          DoEvaluate(VisionAnalysisResult(labels), md, m, calls)

NextDeterminism == EvaluateAgain \/ Tick

SpecDeterminism == InitDeterminism /\ [][NextDeterminism]_vars

\* ==================== SpecScore: the construction of a ConfidenceScore
\* A ConfidenceScore is asked for with a value from MaxExcess percent below
\* the range to MaxExcess percent above it, directly or through a factory;
\* one that was produced is then the confidence of the one label of a vision
\* result that the evaluator evaluates.
ScoreValues == (0 - Pct(MaxExcess))..(Pct(100) + Pct(MaxExcess))

NormalizedValues == (0 - MaxExcess)..(Scale + MaxExcess)

InitScore ==
    /\ rules = CleanlinessRules(Some({ Trash }), DefaultConfidenceThreshold,
                                DefaultMaxNegativeLabels, TRUE)
    /\ audits = << >>
    /\ calls = << >>
    /\ now = 0
    /\ repo = << >>
    /\ tasks = << >>

\* ConfidenceScore(value=v) and ConfidenceScore.from_rekognition(v)
ConstructScore ==
    /\ Len(calls) = 0
    /\ \E v \in ScoreValues, factory \in { "ConfidenceScore", "from_rekognition" } :
          LET outcome == IF factory = "ConfidenceScore" THEN NewConfidenceScore(v)
                         ELSE from_rekognition(v)
          IN  calls' = << [ op |-> factory, value |-> v,
                            returned |-> outcome.returned, raised |-> outcome.raised ] >>
    /\ UNCHANGED << rules, audits, now, repo, tasks >>

\* ConfidenceScore.from_normalized(score)
ConstructNormalized ==
    /\ Len(calls) = 0
    /\ \E score \in NormalizedValues :
          LET outcome == from_normalized(score)
          IN  calls' = << [ op |-> "from_normalized", value |-> score * 100,
                            returned |-> outcome.returned, raised |-> outcome.raised ] >>
    /\ UNCHANGED << rules, audits, now, repo, tasks >>

\* the score just produced arrives as the confidence of a detected label
EvaluateScored ==
    /\ Len(audits) = 0
    /\ Len(calls) = 1
    /\ calls[1].returned # None
    /\ \E n \in { Car, Trash }, md \in Metadata :
          DoEvaluate(VisionAnalysisResult(<< VisionLabel(n, calls[1].returned[1]) >>),
                     md, None, calls)

NextScore == ConstructScore \/ ConstructNormalized \/ EvaluateScored

SpecScore == InitScore /\ [][NextScore]_vars

\* ======================= SpecImage: the validity of an image for analysis
\* is_valid_for_analysis() is asked of an ImageMetadata whose size lies
\* around the limit and whose dimensions are unknown or lie around zero and
\* around the minimum resolution.
ImageSizes == { 0, 15 * 1024 * 1024 - 1, 15 * 1024 * 1024, 15 * 1024 * 1024 + 1 }

ImageWidths == { None } \cup { Some(w) : w \in { 0 - 1, 0, 1, 639, 640, 641 } }

ImageHeights == { None } \cup { Some(h) : h \in { 0 - 1, 0, 1, 479, 480, 481 } }

InitImage ==
    /\ rules = DefaultRules
    /\ audits = << >>
    /\ calls = << >>
    /\ now = 0
    /\ repo = << >>
    /\ tasks = << >>

\* image_metadata.is_valid_for_analysis()
CheckImage ==
    /\ Len(calls) = 0
    /\ \E size \in ImageSizes, w \in ImageWidths, h \in ImageHeights :
          LET md == ImageMetadata("dealer-1", "entrance", size, w, h)
          IN  calls' = << [ op |-> "is_valid_for_analysis", image_metadata |-> md,
                            returned |-> is_valid_for_analysis(md) ] >>
    /\ UNCHANGED << rules, audits, now, repo, tasks >>

NextImage == CheckImage

SpecImage == InitImage /\ [][NextImage]_vars

\* ------------------------------------------------------ repository actions
\* audit = AuditResult(image_metadata, [], ConfidenceScore(92.0), status,
\*                     audit_id=audit_id, analyzed_at=analyzed_at)
DoNewAudit(audit_id, image_metadata, status, analyzed_at, history) ==
    /\ audits' = Append(audits, AuditResult(image_metadata, << >>, ConfidenceScore(Pct(92)),
                                            status, audit_id, << >>, None, analyzed_at,
                                            None, "rekognition", None))
    /\ calls' = history
    /\ UNCHANGED << rules, now, repo, tasks >>

\* a save that stores a copy of the entity as it is at the time of the call
DoSaveSnapshot(i, history) ==
    /\ audits' = Append(audits, audits[i])
    /\ repo' = setitem(repo, audits[i].audit_id, Len(audits) + 1)
    /\ calls' = Append(history, [ op |-> "save", audit |-> i ])
    /\ UNCHANGED << rules, now, tasks >>

\* await repository.save(audits[i])
DoSave(i, history) ==
    /\ repo' = save(repo, audits, i)
    /\ calls' = Append(history, [ op |-> "save", audit |-> i ])
    /\ UNCHANGED << rules, audits, now, tasks >>

\* await repository.find_by_id(audit_id)
DoFindById(audit_id, history) ==
    /\ calls' = Append(history, [ op |-> "find_by_id", audit_id |-> audit_id,
                                  returned |-> find_by_id(repo, audit_id) ])
    /\ UNCHANGED << rules, audits, now, repo, tasks >>

\* await repository.find_by_dealer_and_checkpoint(dealer_id, checkpoint_id, limit)
DoFindByDealerAndCheckpoint(dealer_id, checkpoint_id, limit, history) ==
    /\ calls' = Append(history, [ op |-> "find_by_dealer_and_checkpoint",
                                  dealer_id |-> dealer_id,
                                  checkpoint_id |-> checkpoint_id,
                                  limit |-> limit,
                                  returned |-> find_by_dealer_and_checkpoint(
                                                   repo, audits, dealer_id, checkpoint_id, limit) ])
    /\ UNCHANGED << rules, audits, now, repo, tasks >>

\* await repository.find_pending_reviews(limit)
DoFindPendingReviews(limit, history) ==
    /\ calls' = Append(history, [ op |-> "find_pending_reviews", limit |-> limit,
                                  returned |-> find_pending_reviews(repo, audits, limit) ])
    /\ UNCHANGED << rules, audits, now, repo, tasks >>

\* await repository.count_by_status(dealer_id)
DoCountByStatus(dealer_id, history) ==
    /\ calls' = Append(history, [ op |-> "count_by_status", dealer_id |-> dealer_id,
                                  returned |-> count_by_status(repo, audits, dealer_id) ])
    /\ UNCHANGED << rules, audits, now, repo, tasks >>

\* no query has been made yet
OnlySaves == \A k \in 1..Len(calls) : calls[k].op = "save"

\* ================================ SpecSave: saves, then a fetch by identity
\* Up to MaxAudits entities, some of them with the same audit_id, are saved
\* up to MaxCalls times in any order; then one audit is fetched by its id.
SaveIds == { 1, 2 }

UnknownId == 3

InitSave ==
    /\ rules = DefaultRules
    /\ audits = << >>
    /\ calls = << >>
    /\ now = 0
    /\ repo = << >>
    /\ tasks = << >>

NewAuditToSave ==
    /\ Len(audits) < MaxAudits
    /\ OnlySaves
    /\ \E audit_id \in SaveIds, md \in Metadata, st \in { CLEAN, REQUIRES_MANUAL_REVIEW } :
          DoNewAudit(audit_id, md, st, now, calls)

Save ==
    /\ Len(calls) < MaxCalls
    /\ OnlySaves
    /\ \E i \in 1..Len(audits) : DoSave(i, calls)

FindById ==
    /\ OnlySaves
    /\ \E audit_id \in SaveIds \cup { UnknownId } : DoFindById(audit_id, calls)

NextSave == NewAuditToSave \/ Save \/ FindById

SpecSave == InitSave /\ [][NextSave]_vars

\* ================== SpecReview: the review queue and the status counts
\* Up to MaxAudits entities of two dealers, analyzed at one of two times and
\* left by the evaluator in a status that is not a verdict or in CLEAN, are
\* saved and reviewed in any order, and the repository is asked for the
\* pending reviews and for the counts of a dealer.
ReviewDealers == { "dealer-1", "dealer-2" }

ReviewStatuses == { REQUIRES_MANUAL_REVIEW, INSUFFICIENT_DATA, CLEAN }

ReviewTimes == { 0, 1 }

ReviewLimits == { 0, 1, 2, 100 }

InitReview ==
    /\ rules = DefaultRules
    /\ audits = << >>
    /\ calls = << >>
    /\ now = 0
    /\ repo = << >>
    /\ tasks = << >>

NewAuditToReview ==
    /\ Len(audits) < MaxAudits
    /\ \E dealer_id \in ReviewDealers, st \in ReviewStatuses, t \in ReviewTimes :
          DoNewAudit(Len(audits) + 1,
                     ImageMetadata(dealer_id, "entrance", 204800, Some(1024), Some(768)),
                     st, t, << >>)

SaveToReview == \E i \in 1..Len(audits) : DoSave(i, << >>)

Review ==
    \E i \in 1..Len(audits), is_clean \in BOOLEAN :
        DoApplyManualOverride(i, << "auditor-1" >>, is_clean, << "verified on site" >>, << >>)

FindPendingReviews == \E limit \in ReviewLimits : DoFindPendingReviews(limit, << >>)

CountByStatus == \E dealer_id \in ReviewDealers : DoCountByStatus(dealer_id, << >>)

NextReview ==
    NewAuditToReview \/ SaveToReview \/ Review \/ FindPendingReviews \/ CountByStatus

SpecReview == InitReview /\ [][NextReview]_vars

\* =========================== SpecFind: the history of one checkpoint
\* Up to MaxAudits entities of two dealers and two checkpoints, analyzed at
\* one of two times, are saved in any order, and the repository is asked for
\* the audits of a dealer's checkpoint.
FindDealers == { "dealer-1", "dealer-2" }

FindCheckpoints == { "entrance", "service bay 1" }

\* the images of the stored audits: a dealer's two checkpoints and the same
\* checkpoint of another dealer
FindMetadata == {
    ImageMetadata("dealer-1", "entrance", 204800, Some(1024), Some(768)),
    ImageMetadata("dealer-1", "service bay 1", 204800, Some(1024), Some(768)),
    ImageMetadata("dealer-2", "entrance", 204800, Some(1024), Some(768)) }

FindTimes == { 0, 1 }

FindLimits == 0..MaxAudits

InitFind ==
    /\ rules = DefaultRules
    /\ audits = << >>
    /\ calls = << >>
    /\ now = 0
    /\ repo = << >>
    /\ tasks = << >>

NewAuditToFind ==
    /\ Len(audits) < MaxAudits
    /\ \E md \in FindMetadata, t \in FindTimes :
          DoNewAudit(Len(audits) + 1, md, CLEAN, t, << >>)

SaveToFind == \E i \in 1..Len(audits) : DoSave(i, << >>)

FindByDealerAndCheckpoint ==
    \E dealer_id \in FindDealers, checkpoint_id \in FindCheckpoints, limit \in FindLimits :
        DoFindByDealerAndCheckpoint(dealer_id, checkpoint_id, limit, << >>)

NextFind == NewAuditToFind \/ SaveToFind \/ FindByDealerAndCheckpoint

SpecFind == InitFind /\ [][NextFind]_vars

\* ================ SpecConcurrent: evaluate calls that run concurrently
\* Up to MaxTasks threads call evaluate on one evaluator, each with its own
\* arguments.  A call runs statement by statement, its local variables held
\* in its entry of tasks, and the statements of different calls interleave
\* in any order.  calls[t] keeps what task t was called with and the rules
\* of the evaluator at that time.
ConcurrentRules == {
    CleanlinessRules(Some({ << "T", "R", "A", "S", "H" >> }), Pct(80), 0, TRUE),
    CleanlinessRules(Some({ << "T", "R", "A", "S", "H" >> }), Pct(92), 1, FALSE) }

InitConcurrent ==
    /\ rules \in ConcurrentRules
    /\ audits = << >>
    /\ calls = << >>
    /\ now = 0
    /\ repo = << >>
    /\ tasks = << >>

\* evaluator.evaluate(vision_result, image_metadata, manual_override) is entered
StartEvaluate ==
    /\ Len(tasks) < MaxTasks
    /\ \E labels \in RepeatResults, md \in Metadata, m \in { None, Some(FALSE) } :
          /\ tasks' = Append(tasks, [ pc |-> "convert",
                                      vision_result |-> VisionAnalysisResult(labels),
                                      image_metadata |-> md,
                                      manual_override |-> m,
                                      detected_labels |-> None,
                                      overall_confidence |-> None,
                                      negative_labels |-> None,
                                      status |-> None,
                                      returned |-> None ])
          /\ calls' = Append(calls, [ op |-> "evaluate",
                                      rules |-> rules,
                                      vision_result |-> VisionAnalysisResult(labels),
                                      image_metadata |-> md,
                                      manual_override |-> m ])
    /\ UNCHANGED << rules, audits, now, repo >>

\* a conversion that first lowers the configured terms in place, in the
\* rules object all calls share
StepConvertLoweringRules(t) ==
    /\ tasks[t].pc = "convert"
    /\ rules' = [rules EXCEPT !.negative_labels = { lower(term) : term \in @ }]
    /\ tasks' = [tasks EXCEPT ![t].detected_labels =
                                  Some(_convert_labels(rules', tasks[t].vision_result.labels)),
                              ![t].pc = "confidence"]
    /\ UNCHANGED << audits, calls, now, repo >>

\* detected_labels = self._convert_labels(vision_result.labels)
StepConvert(t) ==
    /\ tasks[t].pc = "convert"
    /\ tasks' = [tasks EXCEPT ![t].detected_labels =
                                  Some(_convert_labels(rules, tasks[t].vision_result.labels)),
                              ![t].pc = "confidence"]
    /\ UNCHANGED << rules, audits, calls, now, repo >>

\* overall_confidence = self._calculate_overall_confidence(detected_labels)
StepConfidence(t) ==
    /\ tasks[t].pc = "confidence"
    /\ tasks' = [tasks EXCEPT ![t].overall_confidence =
                                  Some(_calculate_overall_confidence(tasks[t].detected_labels[1])),
                              ![t].pc = "negative"]
    /\ UNCHANGED << rules, audits, calls, now, repo >>

\* negative_labels = self._identify_negative_labels(detected_labels)
StepNegative(t) ==
    /\ tasks[t].pc = "negative"
    /\ tasks' = [tasks EXCEPT ![t].negative_labels =
                                  Some(_identify_negative_labels(tasks[t].detected_labels[1])),
                              ![t].pc = "status"]
    /\ UNCHANGED << rules, audits, calls, now, repo >>

\* status = self._determine_status(negative_labels, overall_confidence, manual_override)
StepStatus(t) ==
    /\ tasks[t].pc = "status"
    /\ tasks' = [tasks EXCEPT ![t].status =
                                  Some(_determine_status(rules, tasks[t].negative_labels[1],
                                                         tasks[t].overall_confidence[1],
                                                         tasks[t].manual_override)),
                              ![t].pc = "construct"]
    /\ UNCHANGED << rules, audits, calls, now, repo >>

\* audit_result = AuditResult(...); return audit_result
StepConstruct(t) ==
    /\ tasks[t].pc = "construct"
    /\ LET audit == AuditResult(tasks[t].image_metadata, tasks[t].detected_labels[1],
                                tasks[t].overall_confidence[1], tasks[t].status[1],
                                Len(audits) + 1, tasks[t].negative_labels[1], None, now,
                                tasks[t].manual_override,
                                tasks[t].vision_result.provider_name,
                                tasks[t].vision_result.model_version)
       IN  /\ audits' = Append(audits, audit)
           /\ tasks' = [tasks EXCEPT ![t].returned = Some(audit), ![t].pc = "done"]
    /\ UNCHANGED << rules, calls, now, repo >>

Step ==
    \E t \in 1..Len(tasks) :
        \/ StepConvert(t)
        \/ StepConfidence(t)
        \/ StepNegative(t)
        \/ StepStatus(t)
        \/ StepConstruct(t)

NextConcurrent == StartEvaluate \/ Step

SpecConcurrent == InitConcurrent /\ [][NextConcurrent]_vars

\* ============ SpecEndpoint: POST /api/v1/vision/analyze/gemini
\* One request is handled.  The use case the handler awaits is a collaborator:
\* when called it returns an AuditResult or raises an exception that carries
\* a message.

\* f"{size_mb:.1f}" for size_mb = size / (1024 * 1024): the number of tenths
\* nearest to it (no size of the model lies half-way between two tenths)
SizeMbText(size) ==
    LET tenths == (2 * 10 * size + 1024 * 1024) \div (2 * 1024 * 1024)
    IN  NatStr(tenths \div 10) \o << ".", Digit(tenths % 10) >>

\* the JSON body FastAPI sends for HTTPException(status_code, detail)
HTTPException(status_code, detail) ==
    [ status_code |-> status_code, body |-> [ detail |-> detail ] ]

\* the JSON body of a VisionAnalysisResponse built from audit_result
VisionAnalysisResponse(audit_result) ==
    [ audit_id |-> audit_result.audit_id,
      dealer_id |-> audit_result.image_metadata.dealer_id,
      checkpoint_id |-> audit_result.image_metadata.checkpoint_id,
      status |-> audit_result.status,
      confidence |-> audit_result.overall_confidence.value,
      reason |-> audit_result.reason[1],
      negative_labels |->
          [i \in 1..Len(audit_result.negative_labels) |->
              [ name |-> audit_result.negative_labels[i].name,
                confidence |-> audit_result.negative_labels[i].confidence.value ]],
      image_url |-> None,
      analyzed_at |-> NatStr(audit_result.analyzed_at) \o << "Z" >> ]

\* analyze_with_gemini(...): the response sent; execute is what
\* use_case.execute(command) does if it is awaited: it returns an audit
\* (execute.returned) or raises an exception of message execute.raised
analyze_with_gemini(content_type, size, execute) ==
    IF content_type \notin { "image/jpeg", "image/png" } THEN
        HTTPException(400, << "Invalid image format. Must be JPEG or PNG." >>)
    ELSE IF size > 15 * 1024 * 1024 THEN
        HTTPException(413, << "Image too large (" >> \o SizeMbText(size)
                              \o << "MB). Maximum 15MB." >>)
    ELSE IF execute.raised = None THEN
        [ status_code |-> 201, body |-> VisionAnalysisResponse(execute.returned[1]) ]
    ELSE
        HTTPException(500, << "Analysis failed: " >> \o execute.raised[1])

\* whether the handler reaches `await use_case.execute(command)`
ExecuteAwaited(content_type, size) ==
    content_type \in { "image/jpeg", "image/png" } /\ size <= 15 * 1024 * 1024

RequestContentTypes == { "image/jpeg", "image/png", "image/gif" }

RequestSizes == { 204800, 15 * 1024 * 1024, 16 * 1024 * 1024 }

\* str(e) of the faults of the vision service and of the storage service
FaultMessages == {
    << "Gemini API error 403: API key AIza-internal-key is not authorized" >>,
    << "S3 upload to bucket stellantis-audits-prod failed: AccessDenied" >> }

\* what use_case.execute does: an audit of the command's dealer and checkpoint,
\* or a fault
Executions(dealer_id, checkpoint_id, size) ==
    { [ returned |-> Some(evaluate(CleanlinessRules(Some({ Trash }), Pct(70), 0, TRUE),
                                   VisionAnalysisResult(labels),
                                   ImageMetadata(dealer_id, checkpoint_id, size, None, None),
                                   None, 1, now)),
        raised |-> None ] : labels \in Scenarios }
    \cup { [ returned |-> None, raised |-> Some(message) ] : message \in FaultMessages }

InitEndpoint ==
    /\ rules = DefaultRules
    /\ audits = << >>
    /\ calls = << >>
    /\ now = 0
    /\ repo = << >>
    /\ tasks = << >>

AnalyzeWithGemini ==
    /\ Len(calls) = 0
    /\ \E dealer_id \in FindDealers, checkpoint_id \in FindCheckpoints,
          content_type \in RequestContentTypes, size \in RequestSizes :
          \E execute \in Executions(dealer_id, checkpoint_id, size) :
              calls' = << [ op |-> "analyze_with_gemini",
                            dealer_id |-> dealer_id,
                            checkpoint_id |-> checkpoint_id,
                            content_type |-> content_type,
                            size |-> size,
                            awaited |-> ExecuteAwaited(content_type, size),
                            execute |-> execute,
                            response |-> analyze_with_gemini(content_type, size, execute) ] >>
    /\ UNCHANGED << rules, audits, now, repo, tasks >>

NextEndpoint == AnalyzeWithGemini

SpecEndpoint == InitEndpoint /\ [][NextEndpoint]_vars

\* ========== SpecLabels: the label list of a constructed AuditResult changes
\* AuditResult is a dataclass that is not frozen and its detected_labels is a
\* list: a holder of the entity can assign the field and can add to or remove
\* from the list.  negative_labels is a list of its own, built by
\* __post_init__.
\* audits[i].detected_labels = labels
DoSetDetectedLabels(i, labels, history) ==
    /\ audits' = [audits EXCEPT ![i].detected_labels = labels]
    /\ calls' = Append(history, [ op |-> "detected_labels=", audit |-> i ])
    /\ UNCHANGED << rules, now, repo, tasks >>

\* audits[i].detected_labels.append(label)
DoAppendDetectedLabel(i, label, history) ==
    /\ audits' = [audits EXCEPT ![i].detected_labels = Append(@, label)]
    /\ calls' = Append(history, [ op |-> "detected_labels.append", audit |-> i ])
    /\ UNCHANGED << rules, now, repo, tasks >>

\* del audits[i].detected_labels[k]   (k counted from 1 here)
DoDeleteDetectedLabel(i, k, history) ==
    /\ audits' = [audits EXCEPT ![i].detected_labels =
                      SubSeq(@, 1, k - 1) \o SubSeq(@, k + 1, Len(@))]
    /\ calls' = Append(history, [ op |-> "del detected_labels[]", audit |-> i ])
    /\ UNCHANGED << rules, now, repo, tasks >>

InitLabels ==
    /\ rules = DefaultRules
    /\ audits = << >>
    /\ calls = << >>
    /\ now = 0
    /\ repo = << >>
    /\ tasks = << >>

ConstructLabelled ==
    /\ Len(audits) = 0
    /\ \E md \in Metadata, detected \in SeqsUpTo(LifeDetected, MaxLabels), st \in { CLEAN, NOT_CLEAN } :
          DoConstruct(md, detected, ConfidenceScore(Pct(92)), st, << >>, None, None, << >>)

SetDetectedLabels ==
    \E i \in 1..Len(audits), labels \in SeqsUpTo(LifeDetected, MaxLabels) :
        DoSetDetectedLabels(i, labels, << >>)

AppendDetectedLabel ==
    \E i \in 1..Len(audits), label \in LifeDetected :
        /\ Len(audits[i].detected_labels) < MaxLabels
        /\ DoAppendDetectedLabel(i, label, << >>)

DeleteDetectedLabel ==
    \E i \in 1..Len(audits) :
        \E k \in 1..Len(audits[i].detected_labels) :
            DoDeleteDetectedLabel(i, k, << >>)

NextLabels ==
    ConstructLabelled \/ SetDetectedLabels \/ AppendDetectedLabel \/ DeleteDetectedLabel

SpecLabels == InitLabels /\ [][NextLabels]_vars

\* ======= SpecStored: an evaluated audit is saved, reviewed and looked up
\* One evaluator produces one audit; the audit is then saved and reviewed up
\* to MaxCalls times in any order, and at the end the repository is asked for
\* it by identity, for the pending reviews or for the status counts.  calls
\* keeps every call made.
StoredRules == { CleanlinessRules(Some({ << "T", "R", "A", "S", "H" >> }), Pct(50), 0, rv) : rv \in BOOLEAN }

StoredLabels == { VisionLabel(Car, ConfidenceScore(Pct(92))), VisionLabel(Trash, ConfidenceScore(Pct(40))) }

StoredLimits == { 1, 100 }

\* no query has been made yet
NoQueryYet == \A k \in 1..Len(calls) : calls[k].op \in { "evaluate", "save", "apply_manual_override" }

InitStored ==
    /\ rules \in StoredRules
    /\ audits = << >>
    /\ calls = << >>
    /\ now = 0
    /\ repo = << >>
    /\ tasks = << >>

EvaluateToStore ==
    /\ Len(audits) = 0
    /\ \E labels \in SeqsUpTo(StoredLabels, MaxLabels), md \in Metadata, m \in Overrides :
          DoEvaluate(VisionAnalysisResult(labels), md, m, calls)

SaveStored ==
    /\ Len(calls) <= MaxCalls
    /\ NoQueryYet
    /\ \E i \in 1..Len(audits) : DoSave(i, calls)

ReviewStored ==
    /\ Len(calls) <= MaxCalls
    /\ NoQueryYet
    /\ \E i \in 1..Len(audits), is_clean \in BOOLEAN :
          DoApplyManualOverride(i, << "auditor-1" >>, is_clean, << "verified on site" >>, calls)

FindStoredById ==
    /\ Len(audits) > 0
    /\ NoQueryYet
    /\ \E audit_id \in { 1, UnknownId } : DoFindById(audit_id, calls)

FindStoredPendingReviews ==
    /\ Len(audits) > 0
    /\ NoQueryYet
    /\ \E limit \in StoredLimits : DoFindPendingReviews(limit, calls)

CountStoredByStatus ==
    /\ Len(audits) > 0
    /\ NoQueryYet
    /\ \E md \in Metadata : DoCountByStatus(md.dealer_id, calls)

NextStored ==
    \/ EvaluateToStore
    \/ SaveStored
    \/ ReviewStored
    \/ FindStoredById
    \/ FindStoredPendingReviews
    \/ CountStoredByStatus

SpecStored == InitStored /\ [][NextStored]_vars

\* ------------------------------------------------- float (IEEE 754 binary64)
\* ConfidenceScore.value is a Python float.  The definitions of this section
\* compute on floats as the interpreter does, to the last bit, for the finite
\* non-negative values in the range of the normal numbers (a confidence is
\* between 0.0 and 100.0 and a sum of five of them is at most 500.0).
\*
\* A natural number is the sequence of its binary digits, the most significant
\* first, without leading zeros; << >> is 0.  A float is a record of m, the 53
\* digits of its significand (<< >> for 0.0), and e, the exponent of the last
\* digit: its value is m * 2^e.

\* F(v), with v computed once
Eager(v, F(_)) == CHOOSE r \in { F(x) : x \in { v } } : TRUE

\* b without its leading zeros
Strip(b) ==
    LET ones == { i \in 1..Len(b) : b[i] = 1 }
    IN  IF ones = { } THEN << >>
        ELSE SubSeq(b, CHOOSE i \in ones : \A j \in ones : i <= j, Len(b))

\* the digits of an int n, 0 <= n < 2^30
BitsOf(n) == Strip([i \in 1..30 |-> (n \div 2^(30 - i)) % 2])

ShiftLeft(b, k) == IF b = << >> THEN b ELSE b \o [i \in 1..k |-> 0]

\* the digit of weight 2^k
Bit(b, k) == IF k < Len(b) THEN b[Len(b) - k] ELSE 0

\* b in base 256: the n lowest digits, the least significant first
Digits256(b, n) ==
    << >> \o [j \in 1..n |->
        Bit(b, 8 * j - 8) + 2 * Bit(b, 8 * j - 7) + 4 * Bit(b, 8 * j - 6) + 8 * Bit(b, 8 * j - 5)
            + 16 * Bit(b, 8 * j - 4) + 32 * Bit(b, 8 * j - 3) + 64 * Bit(b, 8 * j - 2)
            + 128 * Bit(b, 8 * j - 1)]

\* the binary digits of the base-256 digits d, the least significant digit first
BitsOf256(d) == Strip([i \in 1..(8 * Len(d)) |->
                    (d[((8 * Len(d) - i) \div 8) + 1] \div 2^((8 * Len(d) - i) % 8)) % 2])

\* the carry into the j-th base-256 digit of x + y
RECURSIVE Carry256(_, _, _)
Carry256(x, y, j) == IF j = 1 THEN 0 ELSE (x[j - 1] + y[j - 1] + Carry256(x, y, j - 1)) \div 256

BitsAdd(a, b) ==
    LET n == 1 + ((IF Len(a) < Len(b) THEN Len(b) ELSE Len(a)) \div 8)
    IN  Eager(<< Digits256(a, n), Digits256(b, n) >>, LAMBDA v :
            Eager(<< >> \o [j \in 1..n |-> (v[1][j] + v[2][j] + Carry256(v[1], v[2], j)) % 256],
                  LAMBDA d : BitsOf256(d)))

BitsLe(a, b) ==
    \/ Len(a) < Len(b)
    \/ /\ Len(a) = Len(b)
       /\ \/ a = b
          \/ \E i \in 1..Len(a) : a[i] < b[i] /\ \A j \in 1..(i - 1) : a[j] = b[j]

\* the remainder that long division by n leaves after the digits j, j + 1, ...
\* of x, a number in base 256 with the least significant digit first
RECURSIVE Rem256(_, _, _)
Rem256(x, n, j) == IF j > Len(x) THEN 0 ELSE (256 * Rem256(x, n, j + 1) + x[j]) % n

\* the quotient, without its leading zeros, and the remainder of b divided by
\* n, 0 < n < 256: long division in base 256
BitsDivMod(b, n) ==
    Eager(Digits256(b, 1 + (Len(b) \div 8)), LAMBDA x :
        [ q |-> Eager(<< >> \o [j \in 1..Len(x) |-> (256 * Rem256(x, n, j + 1) + x[j]) \div n],
                      LAMBDA d : BitsOf256(d)),
          r |-> Rem256(x, n, 1) ])

SignificandBits == 53

\* the float nearest to b * 2^e, or to a number above it by less than 2^e when
\* sticky, a tie going to the even significand; sticky only with more than
\* SignificandBits + 1 digits in b
RoundToNearestEven(b, sticky, e) ==
    IF Len(b) <= SignificandBits THEN
        [ m |-> ShiftLeft(b, SignificandBits - Len(b)),
          e |-> IF b = << >> THEN 0 ELSE e - (SignificandBits - Len(b)) ]
    ELSE LET kept == SubSeq(b, 1, SignificandBits)
             drop == Len(b) - SignificandBits
             rest == sticky \/ \E i \in (SignificandBits + 2)..Len(b) : b[i] = 1
             up == b[SignificandBits + 1] = 1 /\ (rest \/ kept[SignificandBits] = 1)
         IN  IF ~up THEN [ m |-> kept, e |-> e + drop ]
             ELSE Eager(BitsAdd(kept, << 1 >>), LAMBDA m :
                      IF Len(m) > SignificandBits
                      THEN [ m |-> SubSeq(m, 1, SignificandBits), e |-> e + drop + 1 ]
                      ELSE [ m |-> m, e |-> e + drop ])

\* float(n) of an int n, 0 <= n < 2^30
float(n) == Eager(BitsOf(n), LAMBDA b : RoundToNearestEven(b, FALSE, 0))

\* x + y
float_add(x, y) ==
    Eager(<< x, y >>, LAMBDA v :
        IF v[1].m = << >> THEN v[2]
        ELSE IF v[2].m = << >> THEN v[1]
        ELSE LET e == IF v[1].e < v[2].e THEN v[1].e ELSE v[2].e
             IN  Eager(<< ShiftLeft(v[1].m, v[1].e - e), ShiftLeft(v[2].m, v[2].e - e) >>, LAMBDA s :
                     Eager(BitsAdd(s[1], s[2]), LAMBDA b : RoundToNearestEven(b, FALSE, e))))

\* x / n for an int n, 0 < n < 256
float_truediv(x, n) ==
    Eager(x, LAMBDA v :
        IF v.m = << >> THEN v
        ELSE Eager(ShiftLeft(v.m, 10), LAMBDA s :
                 Eager(BitsDivMod(s, n), LAMBDA d :
                     RoundToNearestEven(d.q, d.r # 0, v.e - 10))))

\* x <= y
float_le(x, y) ==
    Eager(<< x, y >>, LAMBDA v :
        IF v[1].m = << >> THEN TRUE
        ELSE IF v[2].m = << >> THEN FALSE
        ELSE v[1].e < v[2].e \/ (v[1].e = v[2].e /\ BitsLe(v[1].m, v[2].m)))

\* the float of a decimal literal with one or two decimals, such as 99.9 and
\* 52.62: the float nearest to tenths / 10 and to hundredths / 100
Tenths(tenths) == float_truediv(float(tenths), 10)
Hundredths(hundredths) == float_truediv(float(hundredths), 100)

\* ------------------------------------------------- evaluate on float values
\* The definitions above hold a confidence as an exact number of 1/Scale
\* percent.  These are the same statements of the code with the confidence
\* held as the float that it is, for what the rounding of float arithmetic
\* decides.

\* __post_init__ raises ValueError exactly when this is false
ConfidenceScoreValid_float(v) == float_le(float(0), v) /\ float_le(v, float(100))

NewConfidenceScore_float(v) ==
    IF ConfidenceScoreValid_float(v)
    THEN [ returned |-> Some(ConfidenceScore(v)), raised |-> None ]
    ELSE [ returned |-> None, raised |-> Some("ValueError") ]

is_above_threshold_float(score, threshold) == float_le(threshold, score.value)

SortedPlace_float(labels, i) ==
    1 + Cardinality({ j \in 1..Len(labels) :
                        \/ ~float_le(labels[j].confidence.value, labels[i].confidence.value)
                        \/ /\ labels[j].confidence.value = labels[i].confidence.value
                           /\ j < i })

SortedByConfidence_float(labels) ==
    Eager(<< >> \o [i \in 1..Len(labels) |-> SortedPlace_float(labels, i)], LAMBDA place :
        << >> \o [k \in 1..Len(labels) |-> labels[CHOOSE i \in 1..Len(labels) : place[i] = k]])

\* sum(l.confidence.value for l in labels): 0 + the first, + the second, ...
RECURSIVE sum_float(_)
sum_float(labels) ==
    IF Len(labels) = 0 THEN float(0)
    ELSE float_add(sum_float(SubSeq(labels, 1, Len(labels) - 1)),
                   labels[Len(labels)].confidence.value)

\* an average that divides the sum of the top labels by five
calculate_confidence_float_by_five(labels) ==
    IF Len(labels) = 0 THEN NewConfidenceScore_float(float(0))
    ELSE Eager(SortedByConfidence_float(labels), LAMBDA all :
         Eager(SubSeq(all, 1, IF Len(all) < TopLabelCount THEN Len(all) ELSE TopLabelCount), LAMBDA top_labels :
         Eager(float_truediv(sum_float(top_labels), TopLabelCount), LAMBDA avg_confidence :
             NewConfidenceScore_float(avg_confidence))))

\* the ConfidenceScore returned, or the error its construction raises
_calculate_overall_confidence_float(labels) ==
    IF Len(labels) = 0 THEN NewConfidenceScore_float(float(0))
    ELSE Eager(SortedByConfidence_float(labels), LAMBDA all :
         Eager(SubSeq(all, 1, IF Len(all) < TopLabelCount THEN Len(all) ELSE TopLabelCount), LAMBDA top_labels :
         Eager(float_truediv(sum_float(top_labels), Len(top_labels)), LAMBDA avg_confidence :
             NewConfidenceScore_float(avg_confidence))))

_determine_status_float(r, negative_labels, overall_confidence, manual_override) ==
    IF manual_override # None THEN
        (IF manual_override[1] THEN CLEAN ELSE NOT_CLEAN)
    ELSE IF ~is_above_threshold_float(overall_confidence, r.confidence_threshold) THEN
        (IF r.require_review_on_low_confidence THEN REQUIRES_MANUAL_REVIEW
         ELSE INSUFFICIENT_DATA)
    ELSE IF Len(negative_labels) > r.max_negative_labels THEN NOT_CLEAN
    ELSE IF Len(negative_labels) > 0 THEN NOT_CLEAN
    ELSE CLEAN

\* evaluate as a call: the AuditResult returned, or the error raised
evaluate_float(r, vision_result, image_metadata, manual_override, audit_id, utcnow) ==
    Eager(_convert_labels(r, vision_result.labels), LAMBDA detected_labels :
    Eager(_calculate_overall_confidence_float(detected_labels), LAMBDA score :
        IF score.raised # None THEN [ returned |-> None, raised |-> score.raised ]
        ELSE LET overall_confidence == score.returned[1]
                 negative_labels == _identify_negative_labels(detected_labels)
                 status == _determine_status_float(r, negative_labels, overall_confidence,
                                                   manual_override)
             IN  [ returned |-> Some(AuditResult(image_metadata, detected_labels,
                                                 overall_confidence, status, audit_id,
                                                 negative_labels, None, utcnow,
                                                 manual_override, vision_result.provider_name,
                                                 vision_result.model_version)),
                   raised |-> None ]))

\* ================= SpecFloat: evaluate with the confidences as floats
\* One evaluator evaluates one vision result of up to MaxConfLabels labels whose
\* confidences are the floats 99.9, 100.0 and 52.62.  Its rules route a low
\* confidence to review, so that no reason formats a float.
FloatRules == { CleanlinessRules(Some({ << "T", "R", "A", "S", "H" >> }), float(80), 0, TRUE) }

FloatLabels == {
    VisionLabel(Car, ConfidenceScore(Tenths(999))),
    VisionLabel(Tire, ConfidenceScore(float(100))),
    VisionLabel(Trash, ConfidenceScore(Hundredths(5262))) }

\* audit = evaluator.evaluate(vision_result, image_metadata, manual_override)
DoEvaluate_float(vision_result, image_metadata, manual_override, history) ==
    \E result \in { evaluate_float(rules, vision_result, image_metadata, manual_override,
                                    Len(audits) + 1, now) } :
        /\ audits' = (IF result.returned = None THEN audits ELSE Append(audits, result.returned[1]))
        /\ calls' = Append(history, [ op |-> "evaluate",
                                      vision_result |-> vision_result,
                                      image_metadata |-> image_metadata,
                                      manual_override |-> manual_override,
                                      returned |-> result.returned,
                                      raised |-> result.raised ])
        /\ UNCHANGED << rules, now, repo, tasks >>

InitFloat ==
    /\ rules \in FloatRules
    /\ audits = << >>
    /\ calls = << >>
    /\ now = 0
    /\ repo = << >>
    /\ tasks = << >>

EvaluateFloats ==
    /\ Len(calls) = 0
    /\ \E labels \in SeqsUpTo(FloatLabels, MaxConfLabels), md \in Metadata :
          DoEvaluate_float(VisionAnalysisResult(labels), md, None, << >>)

NextFloat == EvaluateFloats

SpecFloat == InitFloat /\ [][NextFloat]_vars

\* ================================================================== claims
LastCall == calls[Len(calls)]

\* the entries of labels whose is_negative flag is set, in the order of labels:
\* entry k is the label at the k-th flagged position
FlaggedPositions(labels) == { i \in 1..Len(labels) : labels[i].is_negative }

FlaggedSublist(labels) ==
    [k \in 1..Cardinality(FlaggedPositions(labels)) |->
        labels[CHOOSE j \in FlaggedPositions(labels) :
                  Cardinality({ i \in FlaggedPositions(labels) : i <= j }) = k]]

C8_ReasonNeverEmpty ==
    \A i \in 1..Len(audits) :
        /\ audits[i].reason # None
        /\ Len(audits[i].reason[1]) > 0
        /\ \A k \in 1..Len(audits[i].reason[1]) : audits[i].reason[1][k] # ""

\* C8 witness: an audit constructed with reason = "" whose reason is now the
\* generated message of its status
C8_Witness ==
    /\ Len(calls) = 1
    /\ LastCall.op = "AuditResult"
    /\ LastCall.reason = Some(<< >>)
    /\ audits[1].status = REQUIRES_MANUAL_REVIEW
    /\ audits[1].reason = Some(<< "Unclear results - manual review required" >>)

TableStatus(status, m, c, n) ==
    /\ m = Some(TRUE) => status = CLEAN
    /\ m = Some(FALSE) => status = NOT_CLEAN
    /\ (m = None /\ c < rules.confidence_threshold) =>
          status = (IF rules.require_review_on_low_confidence
                    THEN REQUIRES_MANUAL_REVIEW ELSE INSUFFICIENT_DATA)
    /\ (m = None /\ c >= rules.confidence_threshold /\ n > rules.max_negative_labels) =>
          status = NOT_CLEAN
    /\ (m = None /\ c >= rules.confidence_threshold /\ n <= rules.max_negative_labels /\ n > 0) =>
          status = NOT_CLEAN
    /\ (m = None /\ c >= rules.confidence_threshold /\ n <= rules.max_negative_labels /\ n = 0) =>
          status = CLEAN

C2_ManualOverrideWins ==
    (Len(calls) > 0 /\ LastCall.op = "evaluate" /\ LastCall.manual_override # None) =>
        LastCall.returned.status =
            (IF LastCall.manual_override[1] THEN CLEAN ELSE NOT_CLEAN)

\* C2 witness: an override to clean of a result that has a negative label and
\* a confidence below the threshold
C2_Witness ==
    /\ Len(calls) > 0
    /\ LastCall.op = "evaluate"
    /\ LastCall.manual_override = Some(TRUE)
    /\ Len(LastCall.returned.negative_labels) > 0
    /\ LastCall.returned.overall_confidence.value < rules.confidence_threshold
    /\ LastCall.returned.status = CLEAN

\* name contains term as a substring when case is ignored: at some offset
\* every character of term equals, up to case, the character of name there
ContainsIgnoringCase(name, term) ==
    \E off \in 0..Len(name) :
        /\ off + Len(term) <= Len(name)
        /\ \A k \in 1..Len(term) : LowerChar(name[off + k]) = LowerChar(term[k])

MatchingPositions(labels) ==
    { i \in 1..Len(labels) :
        \E term \in rules.negative_labels : ContainsIgnoringCase(labels[i].name, term) }

\* C3: the negative_labels of the AuditResult returned by evaluate are
\* exactly the detected labels, one per vision label and in the same order,
\* whose name contains a configured negative term case-insensitively; a
\* label matched by several terms appears once, one matched by none never.
C3_NegativeLabelsAreTheMatches ==
    (Len(calls) > 0 /\ LastCall.op = "evaluate") =>
        LET given == LastCall.vision_result.labels
            a == LastCall.returned
            hits == MatchingPositions(given)
        IN  /\ Len(a.detected_labels) = Len(given)
            /\ \A i \in 1..Len(given) :
                  /\ a.detected_labels[i].name = given[i].name
                  /\ a.detected_labels[i].confidence = given[i].confidence
            /\ Len(a.negative_labels) = Cardinality(hits)
            /\ \A k \in 1..Len(a.negative_labels) :
                  a.negative_labels[k] =
                      a.detected_labels[CHOOSE j \in hits :
                                           Cardinality({ i \in hits : i <= j }) = k]

\* C3 witness: a lower-case label matched by two terms, one of them written
\* in upper case, next to a label matched by none
C3_Witness ==
    /\ Len(calls) > 0
    /\ LastCall.op = "evaluate"
    /\ Cardinality({ t \in rules.negative_labels : ContainsIgnoringCase(oil_stain, t) }) = 2
    /\ Len(LastCall.returned.detected_labels) = 2
    /\ LastCall.returned.detected_labels[1].name = oil_stain
    /\ LastCall.returned.detected_labels[2].name = Car
    /\ Len(LastCall.returned.negative_labels) = 1
    /\ LastCall.returned.negative_labels[1].name = oil_stain

\* C7: without an override, an aggregate confidence below the threshold
\* gives REQUIRES_MANUAL_REVIEW when require_review_on_low_confidence is set
\* and INSUFFICIENT_DATA when it is not, whatever the negative labels; a
\* result with no labels under a positive threshold is never CLEAN nor
\* NOT_CLEAN.
C7_LowConfidenceIsRouted ==
    (Len(calls) > 0 /\ LastCall.op = "evaluate" /\ LastCall.manual_override = None) =>
        LET routed == IF rules.require_review_on_low_confidence
                      THEN REQUIRES_MANUAL_REVIEW ELSE INSUFFICIENT_DATA
        IN  /\ LastCall.returned.overall_confidence.value < rules.confidence_threshold =>
                  LastCall.returned.status = routed
            /\ (Len(LastCall.vision_result.labels) = 0 /\ rules.confidence_threshold > 0) =>
                  /\ LastCall.returned.overall_confidence.value = 0
                  /\ LastCall.returned.status = routed
                  /\ LastCall.returned.status \notin { CLEAN, NOT_CLEAN }

\* C7 witness: a low-confidence result that has negative labels, under rules
\* that do not route to review
C7_Witness ==
    /\ Len(calls) > 0
    /\ LastCall.op = "evaluate"
    /\ LastCall.manual_override = None
    /\ ~rules.require_review_on_low_confidence
    /\ LastCall.returned.overall_confidence.value < rules.confidence_threshold
    /\ Len(LastCall.returned.negative_labels) > rules.max_negative_labels
    /\ LastCall.returned.status = INSUFFICIENT_DATA

RECURSIVE SumAt(_, _)
SumAt(labels, S) ==
    IF S = { } THEN 0
    ELSE LET i == CHOOSE x \in S : TRUE
         IN  labels[i].confidence.value + SumAt(labels, S \ { i })

\* v is the arithmetic mean of the min(TopLabelCount, k) highest confidences
\* of the k labels: of some choice of that many labels none of which has a
\* lower confidence than a label left out
IsMeanOfHighest(v, labels) ==
    LET k == Len(labels)
        t == IF k < TopLabelCount THEN k ELSE TopLabelCount
    IN  \E S \in SUBSET (1..k) :
            /\ Cardinality(S) = t
            /\ \A i \in S, j \in (1..k) \ S :
                  labels[i].confidence.value >= labels[j].confidence.value
            /\ v * t = SumAt(labels, S)

NegativeName(a, k) ==
    a.detected_labels[CHOOSE j \in FlaggedPositions(a.detected_labels) :
        Cardinality({ i \in FlaggedPositions(a.detected_labels) : i <= j }) = k].name

\* the reason text for an audit of status NOT_CLEAN with n flagged labels
IssuesText(a, n) ==
    IF n = 1 THEN << "Issues detected: " >> \o NegativeName(a, 1)
    ELSE IF n = 2 THEN << "Issues detected: " >> \o NegativeName(a, 1) \o << ", " >>
                       \o NegativeName(a, 2)
    ELSE << "Issues detected: " >> \o NegativeName(a, 1) \o << ", " >>
         \o NegativeName(a, 2) \o << ", " >> \o NegativeName(a, 3)

\* C9: the reason generated for an AuditResult constructed without one is,
\* in this priority: CLEAN -> "No cleanliness issues detected";
\* INSUFFICIENT_DATA -> a message embedding the formatted confidence;
\* REQUIRES_MANUAL_REVIEW -> the "Unclear results" message; otherwise, with
\* negative labels -> "Issues detected: " and the names of the first
\* min(3, n) of them in detection order, comma-joined; otherwise "Status
\* determination unclear".  Default rules and one label Trash at 92 give
\* NOT_CLEAN with a reason naming Trash.
C9_GeneratedReason ==
    (Len(calls) > 0 /\ LastCall.op \in { "AuditResult", "evaluate" }) =>
        LET a == LastCall.returned
            n == Cardinality(FlaggedPositions(a.detected_labels))
        IN  /\ a.status = CLEAN =>
                  a.reason = Some(<< "No cleanliness issues detected" >>)
            /\ a.status = INSUFFICIENT_DATA =>
                  a.reason = Some(<< "Confidence too low (" >>
                                  \o as_percentage(a.overall_confidence) \o << ")" >>)
            /\ (a.status = INSUFFICIENT_DATA /\ a.overall_confidence.value = Pct(40)) =>
                  a.reason = Some(<< "Confidence too low (", "4", "0", ".", "0", "0", "%", ")" >>)
            /\ a.status = REQUIRES_MANUAL_REVIEW =>
                  a.reason = Some(<< "Unclear results - manual review required" >>)
            /\ (a.status = NOT_CLEAN /\ n > 0) => a.reason = Some(IssuesText(a, n))
            /\ (a.status = NOT_CLEAN /\ n = 0) =>
                  a.reason = Some(<< "Status determination unclear" >>)
            /\ (LastCall.op = "evaluate"
                  /\ LastCall.vision_result.labels = << VisionLabel(Trash, ConfidenceScore(Pct(92))) >>
                  /\ LastCall.manual_override = None) =>
                  /\ a.status = NOT_CLEAN
                  /\ a.reason = Some(<< "Issues detected: ", "T", "r", "a", "s", "h" >>)

\* C9 witness: a NOT_CLEAN audit with four negative labels after a label that
\* is not negative; its reason names the first three negative ones
C9_Witness ==
    /\ Len(calls) > 0
    /\ LastCall.op = "AuditResult"
    /\ LastCall.returned.status = NOT_CLEAN
    /\ Len(LastCall.returned.detected_labels) = 4
    /\ Len(LastCall.returned.negative_labels) = 4
    /\ LastCall.returned.detected_labels[1].name = oil_stain
    /\ LastCall.returned.detected_labels[2].name = Trash
    /\ LastCall.returned.detected_labels[3].name = Trash
    /\ LastCall.returned.reason =
          Some(<< "Issues detected: " >> \o oil_stain \o << ", " >> \o Trash \o << ", " >> \o Trash)

\* the part of an evaluation's result that may not vary from call to call
Verdict(a) ==
    [ status |-> a.status,
      overall_confidence |-> a.overall_confidence,
      detected_labels |-> a.detected_labels,
      negative_labels |-> a.negative_labels,
      reason |-> a.reason ]

SameInput(c, d) ==
    /\ c.vision_result = d.vision_result
    /\ c.image_metadata = d.image_metadata
    /\ c.manual_override = d.manual_override

\* C6: two evaluations of the same (rules, vision_result, image_metadata,
\* manual_override), at any times and with any other evaluations in between,
\* return the same status, overall confidence, detected labels, negative
\* labels and reason; only audit_id and analyzed_at may differ.
C6_Deterministic ==
    \A i, j \in 1..Len(calls) :
        (calls[i].op = "evaluate" /\ calls[j].op = "evaluate" /\ SameInput(calls[i], calls[j])) =>
            Verdict(calls[i].returned) = Verdict(calls[j].returned)

\* C6 witness: the same input evaluated first and third, at different times,
\* with an evaluation of another input in between that returned another
\* status
C6_Witness ==
    /\ Len(calls) = 3
    /\ SameInput(calls[1], calls[3])
    /\ ~SameInput(calls[1], calls[2])
    /\ calls[1].returned.status # calls[2].returned.status
    /\ calls[1].returned.analyzed_at < calls[3].returned.analyzed_at
    /\ calls[1].returned.audit_id # calls[3].returned.audit_id
    /\ calls[1].manual_override = None

\* C11: a finalized AuditResult (one with a recorded reviewer) is immutable
\* history: no operation, a second apply_manual_override included, changes
\* its status, reason, reviewer or review time; the attempt fails with
\* AuditAlreadyFinalizedError instead of overwriting them.
C11_FinalizedIsImmutable ==
    [][\A i \in 1..Len(audits) :
          is_finalized(audits[i]) =>
              /\ audits'[i].status = audits[i].status
              /\ audits'[i].reason = audits[i].reason
              /\ audits'[i].reviewed_by = audits[i].reviewed_by
              /\ audits'[i].reviewed_at = audits[i].reviewed_at]_vars

\* every ConfidenceScore held by an AuditResult
ScoresOf(a) ==
    { a.overall_confidence }
        \cup { a.detected_labels[i].confidence : i \in 1..Len(a.detected_labels) }
        \cup { a.negative_labels[i].confidence : i \in 1..Len(a.negative_labels) }

IsScoreCall(c) == c.op \in { "ConfidenceScore", "from_rekognition", "from_normalized" }

\* C12: constructing a ConfidenceScore with value v fails with an error and
\* produces no object for every v < 0 and every v > 100, and succeeds for
\* every 0 <= v <= 100, exactly 0 and exactly 100 included; no ConfidenceScore
\* with a value outside [0, 100] exists in any reachable state.
C12_ConfidenceScoreRange ==
    /\ \A i \in 1..Len(calls) :
          IsScoreCall(calls[i]) =>
              /\ (calls[i].value < 0 \/ calls[i].value > 100 * Scale) =>
                    (calls[i].returned = None /\ calls[i].raised = Some("ValueError"))
              /\ (0 <= calls[i].value /\ calls[i].value <= 100 * Scale) =>
                    (calls[i].returned = Some([ value |-> calls[i].value ])
                        /\ calls[i].raised = None)
              /\ calls[i].returned # None =>
                    (0 <= calls[i].returned[1].value /\ calls[i].returned[1].value <= 100 * Scale)
    /\ \A i \in 1..Len(audits) :
          \A score \in ScoresOf(audits[i]) : 0 <= score.value /\ score.value <= 100 * Scale

\* C12 witness: a construction one step below 0 has raised the error and
\* produced nothing
C12_Witness ==
    /\ Len(calls) = 1
    /\ calls[1].op = "ConfidenceScore"
    /\ calls[1].value = 0 - 1
    /\ calls[1].returned = None
    /\ calls[1].raised = Some("ValueError")

\* C13: is_valid_for_analysis() is false if file_size_bytes exceeds 15 MB
\* (exactly 15 MB is still valid) or if both width_px and height_px are
\* known (not None, whatever their value, 0 included) and width_px < 640 or
\* height_px < 480; it is true in every other case, also when either
\* dimension is unknown.
C13_ValidForAnalysis ==
    (Len(calls) > 0 /\ LastCall.op = "is_valid_for_analysis") =>
        LET md == LastCall.image_metadata
            too_large == md.file_size_bytes > 15 * 1024 * 1024
            too_small == /\ md.width_px # None
                         /\ md.height_px # None
                         /\ (md.width_px[1] < 640 \/ md.height_px[1] < 480)
        IN  LastCall.returned = ~(too_large \/ too_small)

\* C14: max_negative_labels is the number of negative labels tolerated before
\* failing: without an override and with the aggregate confidence at or above
\* the threshold, an evaluation with at most max_negative_labels negative
\* labels is not NOT_CLEAN, and only a count exceeding max_negative_labels
\* gives NOT_CLEAN.
C14_MaxNegativeLabelsTolerated ==
    (/\ Len(calls) > 0
     /\ LastCall.op = "evaluate"
     /\ LastCall.manual_override = None
     /\ LastCall.returned.overall_confidence.value >= rules.confidence_threshold) =>
        (LastCall.returned.status = NOT_CLEAN
            <=> Len(LastCall.returned.negative_labels) > rules.max_negative_labels)

\* the save calls made so far, as places in calls
SavesOf(audit_id) ==
    { k \in 1..Len(calls) : calls[k].op = "save" /\ audits[calls[k].audit].audit_id = audit_id }

\* the audit_ids saved so far
SavedIds == { audits[calls[k].audit].audit_id : k \in { j \in 1..Len(calls) : calls[j].op = "save" } }

\* the object most recently saved under audit_id
LastSaved(audit_id) ==
    calls[CHOOSE k \in SavesOf(audit_id) : \A j \in SavesOf(audit_id) : j <= k].audit

\* C15: save is an idempotent upsert by identity: after any sequence of save
\* calls the repository holds exactly one record per distinct audit_id
\* saved, saving the same audit again creates no duplicate, find_by_id(id)
\* returns the audit most recently saved under id, and find_by_id of an id
\* never saved returns None.
C15_SaveIsUpsert ==
    /\ { repo[i].key : i \in 1..Len(repo) } = SavedIds
    /\ Len(repo) = Cardinality(SavedIds)
    /\ \A i \in 1..Len(repo) : audits[repo[i].ref].audit_id = repo[i].key
    /\ (Len(calls) > 0 /\ LastCall.op = "find_by_id") =>
          IF SavesOf(LastCall.audit_id) = { } THEN LastCall.returned = None
          ELSE LastCall.returned = Some(LastSaved(LastCall.audit_id))

\* C15 witness: an audit is saved, another object with the same audit_id is
\* saved over it, the first is saved again; the one record under that id is
\* the first object, and find_by_id returns it
C15_Witness ==
    /\ Len(calls) = 4
    /\ calls[1].op = "save" /\ calls[2].op = "save" /\ calls[3].op = "save"
    /\ calls[1].audit = 1 /\ calls[2].audit = 2 /\ calls[3].audit = 1
    /\ audits[1].audit_id = audits[2].audit_id
    /\ audits[1] # audits[2]
    /\ calls[4].op = "find_by_id"
    /\ calls[4].audit_id = audits[1].audit_id
    /\ calls[4].returned = Some(1)
    /\ Len(repo) = 1

\* the objects the repository holds
Stored == { repo[i].ref : i \in 1..Len(repo) }

\* the stored audits that await a review
Pending ==
    { r \in Stored : /\ audits[r].status \in { REQUIRES_MANUAL_REVIEW, INSUFFICIENT_DATA }
                     /\ audits[r].reviewed_by = None }

\* C16: find_pending_reviews(limit) returns exactly the stored audits whose
\* status is REQUIRES_MANUAL_REVIEW or INSUFFICIENT_DATA and that are not
\* finalized, oldest analyzed_at first, truncated to the first limit entries;
\* an untruncated result misses no such audit.
C16_PendingReviews ==
    (Len(calls) > 0 /\ LastCall.op = "find_pending_reviews") =>
        LET got == LastCall.returned
            n == Cardinality(Pending)
        IN  /\ Len(got) = (IF LastCall.limit < n THEN LastCall.limit ELSE n)
            /\ \A k \in 1..Len(got) : got[k] \in Pending
            /\ \A k, l \in 1..Len(got) : k < l =>
                  /\ got[k] # got[l]
                  /\ audits[got[k]].analyzed_at <= audits[got[l]].analyzed_at
            /\ \A k \in 1..Len(got) :
                  \A r \in Pending \ { got[l] : l \in 1..Len(got) } :
                      audits[got[k]].analyzed_at <= audits[r].analyzed_at
            /\ LastCall.limit >= n => { got[k] : k \in 1..Len(got) } = Pending

\* C17: count_by_status(dealer_id) counts per dealer: for every status the
\* count is the number of stored audits of that dealer whose current status
\* it is; audits of other dealers are not counted, and each of the four
\* statuses is a key of the result, with 0 when there is none.
C17_CountsPerDealer ==
    (Len(calls) > 0 /\ LastCall.op = "count_by_status") =>
        /\ DOMAIN LastCall.returned = { "CLEAN", "NOT_CLEAN", "REQUIRES_MANUAL_REVIEW", "INSUFFICIENT_DATA" }
        /\ \A status \in DOMAIN LastCall.returned :
              LastCall.returned[status] =
                  Cardinality({ r \in Stored :
                      /\ audits[r].image_metadata.dealer_id = LastCall.dealer_id
                      /\ audits[r].status = status })

\* the stored audits of a dealer's checkpoint
Matching(dealer_id, checkpoint_id) ==
    { r \in Stored : /\ audits[r].image_metadata.dealer_id = dealer_id
                     /\ audits[r].image_metadata.checkpoint_id = checkpoint_id }

\* C18: find_by_dealer_and_checkpoint(dealer_id, checkpoint_id, limit) with
\* limit >= 0 returns only stored audits of exactly that dealer_id and that
\* checkpoint_id, newest analyzed_at first, at most limit of them, and they
\* are the min(limit, m) newest of the m matching audits.
C18_FindByDealerAndCheckpoint ==
    (Len(calls) > 0 /\ LastCall.op = "find_by_dealer_and_checkpoint" /\ LastCall.limit >= 0) =>
        LET got == LastCall.returned
            all == Matching(LastCall.dealer_id, LastCall.checkpoint_id)
            m == Cardinality(all)
        IN  /\ \A k \in 1..Len(got) : got[k] \in all
            /\ Len(got) <= LastCall.limit
            /\ Len(got) = (IF LastCall.limit < m THEN LastCall.limit ELSE m)
            /\ \A k, l \in 1..Len(got) : k < l =>
                  /\ got[k] # got[l]
                  /\ audits[got[k]].analyzed_at >= audits[got[l]].analyzed_at
            /\ \A k \in 1..Len(got) :
                  \A r \in all \ { got[l] : l \in 1..Len(got) } :
                      audits[got[k]].analyzed_at >= audits[r].analyzed_at

\* C18 witness: of the two stored audits of a checkpoint the older was saved
\* first; a query with limit 1 returns the newer one alone
C18_Witness ==
    /\ Len(calls) > 0
    /\ LastCall.op = "find_by_dealer_and_checkpoint"
    /\ LastCall.limit = 1
    /\ Cardinality(Matching(LastCall.dealer_id, LastCall.checkpoint_id)) = 2
    /\ Len(LastCall.returned) = 1
    /\ \E r \in Matching(LastCall.dealer_id, LastCall.checkpoint_id) :
          /\ audits[r].analyzed_at < audits[LastCall.returned[1]].analyzed_at
          /\ \E i, j \in 1..Len(repo) :
                i < j /\ repo[i].ref = r /\ repo[j].ref = LastCall.returned[1]

\* C19: evaluate mutates nothing outside its return value: the evaluator's
\* CleanlinessRules, the VisionAnalysisResult with its labels and the
\* ImageMetadata are the same at every point of every call as when the call
\* was made, and in any interleaving of concurrent calls that share one
\* rules object each call returns what it returns when run alone.
C19_EvaluateMutatesNothing ==
    \A t \in 1..Len(tasks) :
        /\ rules = calls[t].rules
        /\ tasks[t].vision_result = calls[t].vision_result
        /\ tasks[t].image_metadata = calls[t].image_metadata
        /\ tasks[t].manual_override = calls[t].manual_override
        /\ tasks[t].pc = "done" =>
              Verdict(tasks[t].returned[1]) =
                  Verdict(evaluate(calls[t].rules, calls[t].vision_result,
                                   calls[t].image_metadata, calls[t].manual_override, 0, 0))

\* C19 witness: two calls with different arguments, the second entered
\* before the first had converted its labels and finished before the first;
\* both have returned, with different statuses
C19_Witness ==
    /\ Len(tasks) = 2
    /\ tasks[1].pc = "done"
    /\ tasks[2].pc = "done"
    /\ calls[1].vision_result # calls[2].vision_result
    /\ tasks[2].returned[1].audit_id = 1
    /\ tasks[1].returned[1].audit_id = 2
    /\ tasks[1].returned[1].status # tasks[2].returned[1].status

\* C20: when the analysis use case invoked by the endpoint fails, the caller
\* receives an error response that carries no audit verdict, and the body of
\* that response does not contain the message of the internal fault.
C20_ErrorResponseLeaksNothing ==
    (/\ Len(calls) > 0
     /\ LastCall.op = "analyze_with_gemini"
     /\ LastCall.awaited
     /\ LastCall.execute.raised # None) =>
        /\ LastCall.response.status_code >= 400
        /\ "status" \notin DOMAIN LastCall.response.body
        /\ \A field \in DOMAIN LastCall.response.body :
              ~StrIn(LastCall.execute.raised[1], LastCall.response.body[field])


\* C21: negative_labels is re-derived whenever the label list of an existing
\* AuditResult changes: after a label was added to, removed from or replaced
\* in detected_labels, negative_labels is the is-negative filter of the new
\* detected_labels, and each of its entries is an entry of detected_labels.
C21_NegativeLabelsFollowChanges ==
    \A i \in 1..Len(audits) :
        (Len(calls) > 0 /\ LastCall.op \in { "detected_labels=", "detected_labels.append", "del detected_labels[]" }) =>
            /\ audits[i].negative_labels = IsNegativeFilter(audits[i].detected_labels)
            /\ \A k \in 1..Len(audits[i].negative_labels) :
                  \E j \in 1..Len(audits[i].detected_labels) :
                      audits[i].detected_labels[j] = audits[i].negative_labels[k]


\* C22: the fourth rule of the status decision ("any negative label fails the
\* audit", tried after "the count exceeds max_negative_labels") is taken only
\* under rules whose max_negative_labels is 0.
C22_FourthRuleOnlyAtZero ==
    (/\ Len(calls) > 0
     /\ LastCall.op = "evaluate"
     /\ _determine_status_rule(rules, LastCall.returned.negative_labels,
                               LastCall.returned.overall_confidence,
                               LastCall.manual_override) = 4) =>
        rules.max_negative_labels = 0


\* the identity of an audit and the evidence of its analysis
Evidence(a) ==
    << a.audit_id, a.image_metadata, a.detected_labels, a.negative_labels,
       a.overall_confidence, a.analyzed_at, a.vision_provider, a.model_version >>

\* C23: apply_manual_override changes only manual_override, status,
\* reviewed_by, reviewed_at and reason: a step that applies an override to an
\* audit leaves its audit_id, image_metadata, detected_labels, negative_labels,
\* overall_confidence, analyzed_at, vision_provider and model_version as they
\* were, and leaves every other audit as it was.
C23_OverrideKeepsEvidence ==
    [][\A i \in 1..Len(audits) :
          (Len(audits') = Len(audits) /\ audits'[i] # audits[i]) =>
              /\ Len(calls') > 0
              /\ calls'[Len(calls')].op = "apply_manual_override"
              /\ calls'[Len(calls')].audit = i
              /\ Evidence(audits'[i]) = Evidence(audits[i])]_vars

\* C23 witness: an audit with a negative label among two labels, analyzed at
\* time 0 and reviewed later, whose verdict was overridden to CLEAN and whose
\* detected and negative labels are still those of the analysis
C23_Witness ==
    /\ Len(calls) > 0
    /\ LastCall.op = "apply_manual_override"
    /\ LastCall.is_clean
    /\ LET a == audits[LastCall.audit]
       IN  /\ a.analyzed_at = 0
           /\ a.reviewed_at = Some(2)
           /\ Len(a.detected_labels) = 2
           /\ Len(a.negative_labels) = 1
           /\ a.manual_override = Some(TRUE)
           /\ a.vision_provider = "rekognition"


\* the places in calls of the overrides applied to audit i
ReviewsOf(i) ==
    { k \in 1..Len(calls) : calls[k].op = "apply_manual_override" /\ calls[k].audit = i }

\* C24: is_finalized() is true exactly of the audits to which
\* apply_manual_override has recorded a reviewer id, and finalization is
\* permanent: no later step, a further override or a save included, makes
\* is_finalized() false again or clears reviewed_by.
C24_FinalizedForGood ==
    /\ [](\A i \in 1..Len(audits) : is_finalized(audits[i]) <=> ReviewsOf(i) # { })
    /\ [][\A i \in 1..Len(audits) :
             is_finalized(audits[i]) =>
                 /\ is_finalized(audits'[i])
                 /\ audits'[i].reviewed_by # None]_vars

\* C24 witness: an audit that was reviewed, then saved, then reviewed again,
\* and is finalized
C24_Witness ==
    /\ Len(calls) = 4
    /\ calls[2].op = "apply_manual_override"
    /\ calls[3].op = "save"
    /\ calls[4].op = "apply_manual_override"
    /\ calls[4].is_clean # calls[2].is_clean
    /\ is_finalized(audits[1])


\* C25: an AuditResult returned by evaluate with a manual_override argument
\* that is not None carries the explicit manual-override reason, not a reason
\* generated from status and labels: its reason begins "Manual override: ",
\* it is not "No cleanliness issues detected" when negative labels were
\* detected, and it is not the "Status determination unclear" fallback.
C25_OverrideReasonFromEvaluate ==
    (/\ Len(calls) > 0
     /\ LastCall.op = "evaluate"
     /\ LastCall.manual_override # None) =>
        LET a == LastCall.returned
        IN  /\ a.reason # None
            /\ Len(a.reason[1]) > 0
            /\ a.reason[1][1] = "Manual override: "
            /\ (Len(a.negative_labels) > 0 => a.reason[1] # << "No cleanliness issues detected" >>)
            /\ a.reason[1] # << "Status determination unclear" >>


\* C26: of every audit produced by evaluate and changed since by
\* apply_manual_override only, in every reachable state: if it is finalized,
\* its status is CLEAN or NOT_CLEAN, reviewed_at is set, manual_override is
\* not None, and the status is CLEAN exactly when manual_override is true; so
\* it does not require review and find_pending_reviews does not return it.
C26_FinalizedHasVerdict ==
    \A i \in 1..Len(audits) :
        is_finalized(audits[i]) =>
            /\ audits[i].status \in { CLEAN, NOT_CLEAN }
            /\ audits[i].reviewed_at # None
            /\ audits[i].manual_override # None
            /\ (audits[i].status = CLEAN <=> audits[i].manual_override = Some(TRUE))
            /\ ~requires_review(audits[i])
            /\ (LastCall.op = "find_pending_reviews" =>
                    \A k \in 1..Len(LastCall.returned) : LastCall.returned[k] # i)

\* C26 witness: an audit that evaluate left in REQUIRES_MANUAL_REVIEW was
\* saved, reviewed as not clean and saved again, and the pending reviews
\* asked for next are none
C26_Witness ==
    /\ Len(calls) = 5
    /\ calls[1].op = "evaluate"
    /\ calls[1].returned.status = REQUIRES_MANUAL_REVIEW
    /\ calls[2].op = "save"
    /\ calls[3].op = "apply_manual_override"
    /\ ~calls[3].is_clean
    /\ calls[4].op = "save"
    /\ calls[5].op = "find_pending_reviews"
    /\ calls[5].returned = << >>
    /\ is_finalized(audits[1])
    /\ audits[1].status = NOT_CLEAN


\* C27: the audit that evaluate returns for a manual_override argument that
\* is not None records the flag and no reviewer: manual_override is the
\* argument, reviewed_by and reviewed_at are None and is_finalized() is false;
\* and an apply_manual_override made on that audit afterwards is accepted and
\* replaces the forced status by its own verdict.
C27_ForcedIsNotFinalized ==
    (/\ Len(calls) > 0
     /\ calls[1].op = "evaluate"
     /\ calls[1].manual_override # None) =>
        /\ calls[1].returned.manual_override = calls[1].manual_override
        /\ calls[1].returned.reviewed_by = None
        /\ calls[1].returned.reviewed_at = None
        /\ ~is_finalized(calls[1].returned)
        /\ (ReviewsOf(1) = { } => audits[1] = calls[1].returned)
        /\ \A k \in ReviewsOf(1) :
              (\A j \in ReviewsOf(1) : j <= k) =>
                  /\ audits[1].status = (IF calls[k].is_clean THEN CLEAN ELSE NOT_CLEAN)
                  /\ audits[1].manual_override = Some(calls[k].is_clean)
                  /\ audits[1].reviewed_by = Some(calls[k].reviewer_id)
                  /\ is_finalized(audits[1])

\* C27 witness: an audit forced to CLEAN by evaluate over a detected negative
\* label, not finalized when returned, was then reviewed as not clean and is
\* NOT_CLEAN and finalized
C27_Witness ==
    /\ Len(calls) = 2
    /\ calls[1].op = "evaluate"
    /\ calls[1].manual_override = Some(TRUE)
    /\ Len(calls[1].returned.negative_labels) > 0
    /\ calls[1].returned.status = CLEAN
    /\ ~is_finalized(calls[1].returned)
    /\ calls[2].op = "apply_manual_override"
    /\ ~calls[2].is_clean
    /\ audits[1].status = NOT_CLEAN
    /\ is_finalized(audits[1])


\* the places in calls of the saves
Saves == { k \in 1..Len(calls) : calls[k].op = "save" }

\* the object passed to the most recent save
SavedObject == calls[CHOOSE k \in Saves : \A j \in Saves : j <= k].audit

\* C28: the repository stores the saved entity itself, not a snapshot: once an
\* audit was saved, find_by_id returns that very object, and
\* find_pending_reviews and count_by_status answer from the state the object
\* has at the time of the query, overrides applied after the last save
\* included.
C28_StoredIsTheEntity ==
    Saves # { } =>
        /\ values(repo) = << SavedObject >>
        /\ (LastCall.op = "find_by_id" /\ LastCall.audit_id = audits[SavedObject].audit_id) =>
               LastCall.returned = Some(SavedObject)
        /\ LastCall.op = "find_pending_reviews" =>
               LastCall.returned =
                   (IF audits[SavedObject].status = REQUIRES_MANUAL_REVIEW
                         /\ ~is_finalized(audits[SavedObject])
                    THEN << SavedObject >> ELSE << >>)
        /\ LastCall.op = "count_by_status" =>
               \A st \in CleanlinessStatus :
                   LastCall.returned[st] = (IF audits[SavedObject].status = st THEN 1 ELSE 0)

\* C28 witness: an audit was saved as evaluate returned it, in
\* REQUIRES_MANUAL_REVIEW, and then reviewed as clean without a further save;
\* the object found by its id is the reviewed one, which differs from the
\* state that was saved
C28_Witness ==
    /\ Len(calls) = 4
    /\ calls[1].op = "evaluate"
    /\ calls[1].returned.status = REQUIRES_MANUAL_REVIEW
    /\ calls[2].op = "save"
    /\ calls[3].op = "apply_manual_override"
    /\ calls[3].is_clean
    /\ calls[4].op = "find_by_id"
    /\ calls[4].returned # None
    /\ audits[calls[4].returned[1]].status = CLEAN
    /\ audits[calls[4].returned[1]].reviewed_by = Some(<< "auditor-1" >>)
    /\ audits[calls[4].returned[1]] # calls[1].returned


\* the names of a list of labels
NamesOf(labels) == [k \in 1..Len(labels) |-> labels[k].name]

\* what CleanlinessStatus.from_evaluation answers for the negative labels and
\* the confidence of the evaluation just made
FactoryStatus ==
    from_evaluation(NamesOf(LastCall.returned.negative_labels),
                    LastCall.returned.overall_confidence.value < rules.confidence_threshold,
                    LastCall.manual_override)

\* what CleanlinessEvaluator._determine_status answers for them
EvaluatorStatus ==
    _determine_status(rules, LastCall.returned.negative_labels,
                      LastCall.returned.overall_confidence, LastCall.manual_override)

AveragedLabels ==
    LET all == SortedByConfidence_float(LastCall.returned[1].detected_labels)
    IN  SubSeq(all, 1, IF Len(all) < TopLabelCount THEN Len(all) ELSE TopLabelCount)

\* x <= y * (1 + 2^-50), computed exactly
LeUpToRounding(x, y) ==
    Eager(<< x, y >>, LAMBDA v :
        IF v[1].m = << >> THEN TRUE
        ELSE IF v[2].m = << >> THEN FALSE
        ELSE LET e == IF v[1].e < v[2].e THEN v[1].e ELSE v[2].e
             IN  Eager(<< ShiftLeft(v[1].m, 50 + v[1].e - e),
                          BitsAdd(ShiftLeft(v[2].m, 50 + v[2].e - e), ShiftLeft(v[2].m, v[2].e - e)) >>,
                       LAMBDA s : BitsLe(s[1], s[2])))

\* C30 as stated: evaluate is total on valid inputs: for labels whose
\* confidences are valid ConfidenceScores, evaluate returns an AuditResult
\* without raising, and its overall confidence lies between the lowest and the
\* highest of the (at most five) averaged label confidences, hence within
\* 0 .. 100.
C30_TotalAndBetween ==
    (Len(calls) > 0 /\ LastCall.op = "evaluate") =>
        /\ LastCall.raised = None
        /\ LastCall.returned # None
        /\ Eager(<< LastCall.returned[1].overall_confidence.value, AveragedLabels >>, LAMBDA v :
               /\ float_le(float(0), v[1])
               /\ float_le(v[1], float(100))
               /\ Len(v[2]) > 0 =>
                      /\ float_le(v[2][Len(v[2])].confidence.value, v[1])
                      /\ float_le(v[1], v[2][1].confidence.value))

\* C30 amended: evaluate is total on valid inputs: it returns an AuditResult
\* without raising, and its overall confidence lies within 0 .. 100 and
\* between the lowest and the highest of the (at most five) averaged label
\* confidences up to the rounding of the float sum and division, a relative
\* 2^-50 at most.
C30_TotalAndBetweenUpToRounding ==
    (Len(calls) > 0 /\ LastCall.op = "evaluate") =>
        /\ LastCall.raised = None
        /\ LastCall.returned # None
        /\ Eager(<< LastCall.returned[1].overall_confidence.value, AveragedLabels >>, LAMBDA v :
               /\ float_le(float(0), v[1])
               /\ float_le(v[1], float(100))
               /\ Len(v[2]) > 0 =>
                      /\ LeUpToRounding(v[2][Len(v[2])].confidence.value, v[1])
                      /\ LeUpToRounding(v[1], v[2][1].confidence.value))

\* C30 witness: three labels of confidence 99.9 were evaluated, and the
\* overall confidence of the audit returned is a float above 99.9, within the
\* rounding
C30_Witness ==
    /\ Len(calls) > 0
    /\ LastCall.op = "evaluate"
    /\ LastCall.returned # None
    /\ Len(LastCall.vision_result.labels) = 3
    /\ \A k \in 1..3 : LastCall.vision_result.labels[k].confidence.value = Tenths(999)
    /\ ~float_le(LastCall.returned[1].overall_confidence.value, Tenths(999))
    /\ LeUpToRounding(LastCall.returned[1].overall_confidence.value, Tenths(999))
    /\ float_le(LastCall.returned[1].overall_confidence.value, float(100))

====
